---- MODULE Spec2Model ----
(***************************************************************************)
(* Model of the tycoon engine: world map graphs and game services.         *)
(*                                                                         *)
(* Two WorldMap implementations are modelled side by side:                 *)
(*   - tycoon_engine/systems/world_map.py  ("systems": the caller builds   *)
(*     Node and Edge objects and attaches them; every Node object keeps a  *)
(*     list of the IDs of its connected edges);                            *)
(*   - tycoon_engine/entities/world_map.py ("entities": the map is a       *)
(*     factory, with ID counters and a breadth-first find_path).           *)
(*                                                                         *)
(* Identifiers are Python strings.  The empty string is a legal identifier *)
(* and is falsy in Python; None is modelled by the reserved string "None", *)
(* which no caller passes as an identifier.  Numbers are integers.         *)
(*                                                                         *)
(* Next to the maps stand the event dispatcher (core/events.py), the game  *)
(* server (networking/server.py), the state manager                        *)
(* (core/state_manager.py), the economy system (entities/economy.py) and   *)
(* the AI player (systems/ai_player.py), each constructed and driven by a  *)
(* specification of its own.                                               *)
(***************************************************************************)
EXTENDS Integers, Sequences, FiniteSets, TLC

(***************************************************************************)
(* Bounds of the model                                                     *)
(***************************************************************************)
\* Node objects the caller of the systems map holds (object slots).
NumObjs == 3
\* Largest value an ID counter of the entities map reaches.
MaxCounter == 1
\* Largest absolute value of a flow amount passed to an Edge, and of the
\* flow an Edge is driven to.
MaxAmount == 2
MaxFlow == 5
\* Largest throughput an Edge is constructed with.
MaxThroughput == 3
\* EventListener objects the application subscribes itself, and events it
\* dispatches itself (its listeners may subscribe and dispatch on top).
MaxListeners == 3
MaxEvents == 2
\* AI players the game server spawns.
MaxAiPlayers == 2
\* Total time passed to the economy system since its construction or reset.
MaxElapsed == 8
\* Actions the application queues on the AI player, and decision hooks it
\* adds.
MaxActions == 2
MaxHooks == 2

(***************************************************************************)
(* Python values                                                           *)
(***************************************************************************)
None == "None"

\* Truth value of an Optional[str] in a Python condition (`if other:`):
\* None and the empty string are both falsy.
Truthy(s) == s /= None /\ s /= ""

RetBool(b) == [t |-> "bool", v |-> b]
RetNone == [t |-> "none"]
RetObj(x) == [t |-> "obj", v |-> x]
RetList(l) == [t |-> "list", v |-> l]

Range(s) == {s[i] : i \in 1..Len(s)}

\* dict without key k
DictDel(d, k) == [x \in (DOMAIN d) \ {k} |-> d[x]]
\* dict with d[k] = v
DictPut(d, k, v) == [x \in (DOMAIN d) \cup {k} |-> IF x = k THEN v ELSE d[x]]
EmptyDict == [x \in {} |-> None]

VARIABLES
    s_nodes,          \* systems WorldMap.nodes: node ID -> Node object
    s_edges,          \* systems WorldMap.edges: edge ID -> Edge
    connected_edges,  \* systems Node._connected_edges, per Node object
    e_nodes,          \* entities WorldMap.nodes: node ID -> Node
    e_edges,          \* entities WorldMap.edges: insertion-ordered dict
    next_node_id,     \* entities WorldMap._next_node_id
    next_edge_id,     \* entities WorldMap._next_edge_id
    edge,             \* a standalone systems Edge object
    driving,          \* which implementation the application drives
    call,             \* the last call made: its name and arguments
    ret,              \* what the last call returned
    dispatcher,       \* core EventDispatcher: listener lists and event queue
    invoked,          \* the listener(event) calls the last call made
    installed,        \* closure flag of the application's installing listener
    created,          \* EventListener and GameEvent objects created so far
    server,           \* networking GameServer: clients, players, AI players
    emitted,          \* Socket.IO events the last handler emitted
    roster,           \* per player ID: player_joined minus player_left so far
    state_manager,    \* core StateManager: states, current state and name
    state_objs,       \* per GameState object: enter() minus exit() calls
    lifecycle,        \* enter() and exit() calls the last call made, in order
    economy,          \* entities EconomySystem
    elapsed,          \* total time passed to EconomySystem.update
    ai_player         \* systems AIPlayer

sysVars == <<s_nodes, s_edges, connected_edges>>
entVars == <<e_nodes, e_edges, next_node_id, next_edge_id>>
worldVars == <<sysVars, entVars, edge, driving>>
evVars == <<dispatcher, invoked, installed, created>>
srvVars == <<server, emitted, roster>>
smVars == <<state_manager, state_objs, lifecycle>>
ecoVars == <<economy, elapsed>>
aiVars == <<ai_player>>
restVars == <<evVars, srvVars, smVars, ecoVars, aiVars>>
vars == <<s_nodes, s_edges, connected_edges, e_nodes, e_edges, next_node_id,
          next_edge_id, edge, driving, call, ret, restVars>>

(***************************************************************************)
(* systems/world_map.py : Node                                             *)
(***************************************************************************)
\* Identifiers the caller of the systems map uses for nodes and edges.
SysNodeIdSeq == <<"a", "">>
SysNodeIds == Range(SysNodeIdSeq)
SysEdgeIds == {"e1", "e2"}

\* The Node objects the caller holds.  Object o was constructed with the
\* node ID ObjId(o); the first object slots past the identifiers give an
\* identifier a second object.
Objs == 1..NumObjs
ObjId(o) == SysNodeIdSeq[((o - 1) % Len(SysNodeIdSeq)) + 1]

\* Node.add_edge: append unless already tracked
NodeAddEdge(lst, edge_id) ==
    IF edge_id \in Range(lst) THEN lst ELSE Append(lst, edge_id)

\* list.remove(x): drop the first occurrence
RECURSIVE ListRemove(_, _)
ListRemove(lst, x) ==
    IF lst = <<>> THEN <<>>
    ELSE IF Head(lst) = x THEN Tail(lst)
    ELSE <<Head(lst)>> \o ListRemove(Tail(lst), x)

\* Node.remove_edge: the list after the call (the ValueError is caught)
NodeRemoveEdge(lst, edge_id) == ListRemove(lst, edge_id)

(***************************************************************************)
(* systems/world_map.py : Edge                                             *)
(***************************************************************************)
SysEdge(edge_id, from_node_id, to_node_id, throughput, bidirectional) ==
    [id |-> edge_id, from_node_id |-> from_node_id, to_node_id |-> to_node_id,
     throughput |-> throughput, bidirectional |-> bidirectional,
     current_flow |-> 0]

SysConnects(e, node_id) == node_id = e.from_node_id \/ node_id = e.to_node_id

\* get_other_node that ignores `bidirectional`
SysGetOtherNode_Undirected(e, node_id) ==
    IF node_id = e.from_node_id THEN e.to_node_id
    ELSE IF node_id = e.to_node_id THEN e.from_node_id
    ELSE None

SysGetOtherNode(e, node_id) ==
    IF node_id = e.from_node_id THEN e.to_node_id
    ELSE IF node_id = e.to_node_id
         THEN (IF e.bidirectional THEN e.from_node_id ELSE None)
    ELSE None

(***************************************************************************)
(* systems/world_map.py : WorldMap                                         *)
(* The operators compute the map after a call and the value returned.      *)
(***************************************************************************)
SysState(nodes, edges, conn, r) ==
    [nodes |-> nodes, edges |-> edges, conn |-> conn, ret |-> r]

\* add_node without the duplicate check
SysAddNodeOp_Overwrite(nodes, edges, conn, o) ==
    SysState(DictPut(nodes, ObjId(o), o), edges, conn, RetBool(TRUE))

SysAddNodeOp(nodes, edges, conn, o) ==
    IF ObjId(o) \in DOMAIN nodes
    THEN SysState(nodes, edges, conn, RetBool(FALSE))
    ELSE SysState(DictPut(nodes, ObjId(o), o), edges, conn, RetBool(TRUE))

\* remove_edge that scrubs an unknown edge ID from every node of the map
SysRemoveEdgeOp_Scrub(nodes, edges, conn, edge_id) ==
    LET held == {nodes[n] : n \in DOMAIN nodes}
        scrubbed == [o \in DOMAIN conn |->
                        IF o \in held /\ (edge_id \notin DOMAIN edges
                                          \/ ObjId(o) = edges[edge_id].from_node_id
                                          \/ ObjId(o) = edges[edge_id].to_node_id)
                        THEN NodeRemoveEdge(conn[o], edge_id) ELSE conn[o]]
    IN  IF edge_id \notin DOMAIN edges
        THEN SysState(nodes, edges, scrubbed, RetBool(FALSE))
        ELSE SysState(nodes, DictDel(edges, edge_id), scrubbed, RetBool(TRUE))

SysRemoveEdgeOp(nodes, edges, conn, edge_id) ==
    IF edge_id \notin DOMAIN edges
    THEN SysState(nodes, edges, conn, RetBool(FALSE))
    ELSE LET e == edges[edge_id]
             c1 == IF e.from_node_id \in DOMAIN nodes
                   THEN [conn EXCEPT ![nodes[e.from_node_id]] =
                                        NodeRemoveEdge(@, edge_id)]
                   ELSE conn
             c2 == IF e.to_node_id \in DOMAIN nodes
                   THEN [c1 EXCEPT ![nodes[e.to_node_id]] =
                                        NodeRemoveEdge(@, edge_id)]
                   ELSE c1
         IN  SysState(nodes, DictDel(edges, edge_id), c2, RetBool(TRUE))

\* the loop `for edge_id in edges_to_remove: self.remove_edge(edge_id)`
RECURSIVE SysRemoveEdges(_, _, _, _)
SysRemoveEdges(nodes, edges, conn, edges_to_remove) ==
    IF edges_to_remove = <<>>
    THEN SysState(nodes, edges, conn, RetBool(TRUE))
    ELSE LET st == SysRemoveEdgeOp(nodes, edges, conn, Head(edges_to_remove))
         IN  SysRemoveEdges(st.nodes, st.edges, st.conn, Tail(edges_to_remove))

\* remove_node that removes only the edges leaving the node
SysRemoveNodeOp_FromOnly(nodes, edges, conn, node_id) ==
    IF node_id \notin DOMAIN nodes
    THEN SysState(nodes, edges, conn, RetBool(FALSE))
    ELSE LET edges_to_remove ==
                 SelectSeq(conn[nodes[node_id]],
                           LAMBDA id : id \in DOMAIN edges =>
                                          edges[id].from_node_id = node_id)
         IN  SysRemoveEdges(DictDel(nodes, node_id), edges, conn,
                            edges_to_remove)

SysRemoveNodeOp(nodes, edges, conn, node_id) ==
    IF node_id \notin DOMAIN nodes
    THEN SysState(nodes, edges, conn, RetBool(FALSE))
    ELSE LET edges_to_remove == conn[nodes[node_id]]
         IN  SysRemoveEdges(DictDel(nodes, node_id), edges, conn,
                            edges_to_remove)

\* add_edge without the test of the endpoints
SysAddEdgeOp_NoValidate(nodes, edges, conn, e) ==
    IF e.id \in DOMAIN edges
    THEN SysState(nodes, edges, conn, RetBool(FALSE))
    ELSE LET c1 == IF e.from_node_id \in DOMAIN nodes
                   THEN [conn EXCEPT ![nodes[e.from_node_id]] = NodeAddEdge(@, e.id)]
                   ELSE conn
             c2 == IF e.to_node_id \in DOMAIN nodes
                   THEN [c1 EXCEPT ![nodes[e.to_node_id]] = NodeAddEdge(@, e.id)]
                   ELSE c1
         IN  SysState(nodes, DictPut(edges, e.id, e), c2, RetBool(TRUE))

SysAddEdgeOp(nodes, edges, conn, e) ==
    IF e.id \in DOMAIN edges
    THEN SysState(nodes, edges, conn, RetBool(FALSE))
    ELSE IF e.from_node_id \notin DOMAIN nodes \/ e.to_node_id \notin DOMAIN nodes
    THEN SysState(nodes, edges, conn, RetBool(FALSE))
    ELSE LET c1 == [conn EXCEPT ![nodes[e.from_node_id]] = NodeAddEdge(@, e.id)]
             c2 == [c1 EXCEPT ![nodes[e.to_node_id]] = NodeAddEdge(@, e.id)]
         IN  SysState(nodes, DictPut(edges, e.id, e), c2, RetBool(TRUE))

RECURSIVE SysEdgesOfList(_, _)
\* [self.edges[edge_id] for edge_id in node.get_connected_edges()
\*                      if edge_id in self.edges]
SysEdgesOfList(edges, ids) ==
    IF ids = <<>> THEN <<>>
    ELSE LET rest == SysEdgesOfList(edges, Tail(ids))
         IN  IF Head(ids) \in DOMAIN edges
             THEN <<edges[Head(ids)]>> \o rest
             ELSE rest

SysGetEdgesFromNodeOp(nodes, edges, conn, node_id) ==
    IF node_id \notin DOMAIN nodes THEN <<>>
    ELSE SysEdgesOfList(edges, conn[nodes[node_id]])

RECURSIVE SysNeighborsOf(_, _, _)
\* the loop of get_neighbors over the edges of the node; the result lists
\* Node objects
SysNeighborsOf(nodes, es, node_id) ==
    IF es = <<>> THEN <<>>
    ELSE LET other_node_id == SysGetOtherNode(Head(es), node_id)
             rest == SysNeighborsOf(nodes, Tail(es), node_id)
         IN  IF Truthy(other_node_id) /\ other_node_id \in DOMAIN nodes
             THEN <<nodes[other_node_id]>> \o rest
             ELSE rest

SysGetNeighborsOp(nodes, edges, conn, node_id) ==
    SysNeighborsOf(nodes, SysGetEdgesFromNodeOp(nodes, edges, conn, node_id),
                   node_id)

\* Node.to_dict of the Node object o
SysNodeToDict(conn, o) == [id |-> ObjId(o), connected_edges |-> conn[o]]

\* Edge.to_dict
SysEdgeToDict(e) ==
    [id |-> e.id, from_node_id |-> e.from_node_id, to_node_id |-> e.to_node_id,
     throughput |-> e.throughput, bidirectional |-> e.bidirectional,
     current_flow |-> e.current_flow]

\* Edge.from_dict that builds the edge and forgets its flow
SysEdgeFromDict_NoFlow(data) ==
    SysEdge(data.id, data.from_node_id, data.to_node_id, data.throughput,
            data.bidirectional)

\* Edge.from_dict: the constructor, then current_flow
SysEdgeFromDict(data) ==
    [SysEdge(data.id, data.from_node_id, data.to_node_id, data.throughput,
             data.bidirectional) EXCEPT !.current_flow = data.current_flow]

\* WorldMap.to_dict
SysToDictOp(nodes, edges, conn) ==
    [id |-> "default",
     nodes |-> [k \in DOMAIN nodes |-> SysNodeToDict(conn, nodes[k])],
     edges |-> [k \in DOMAIN edges |-> SysEdgeToDict(edges[k])]]

\* The Node object that Node.from_dict builds for an ID: a new object, held
\* in the first slot of that ID.
SysLoadedObj(node_id) ==
    CHOOSE o \in Objs :
        ObjId(o) = node_id /\ \A p \in Objs : ObjId(p) = node_id => o <= p

\* WorldMap.from_dict: nodes keyed by node.id, edges keyed by edge.id, each
\* new Node object given the incidence list of its record; no check relates
\* the edges to the nodes.
SysFromDictOp(conn, data) ==
    LET nds == {data.nodes[k] : k \in DOMAIN data.nodes}
        eds == {data.edges[k] : k \in DOMAIN data.edges}
    IN  SysState([n \in {d.id : d \in nds} |-> SysLoadedObj(n)],
                 [k \in {d.id : d \in eds} |->
                     SysEdgeFromDict(CHOOSE d \in eds : d.id = k)],
                 [o \in Objs |->
                     IF \E d \in nds : SysLoadedObj(d.id) = o
                     THEN (CHOOSE d \in nds : SysLoadedObj(d.id) = o).connected_edges
                     ELSE conn[o]],
                 RetNone)

SysApply(st) ==
    /\ s_nodes' = st.nodes
    /\ s_edges' = st.edges
    /\ connected_edges' = st.conn
    /\ ret' = st.ret

\* Node(node_id, x, y): the caller constructs a Node; a slot whose object the
\* map does not hold is reused for it.
SysNewNode(o) ==
    /\ \A n \in DOMAIN s_nodes : s_nodes[n] /= o
    /\ connected_edges[o] /= <<>>
    /\ connected_edges' = [connected_edges EXCEPT ![o] = <<>>]
    /\ call' = [op |-> "Node", obj |-> o]
    /\ ret' = RetObj(o)
    /\ UNCHANGED <<s_nodes, s_edges, entVars, edge, driving, restVars>>

SysAddNode(o) ==
    /\ SysApply(SysAddNodeOp(s_nodes, s_edges, connected_edges, o))
    /\ call' = [op |-> "sys.add_node", obj |-> o, id |-> ObjId(o)]
    /\ UNCHANGED <<entVars, edge, driving, restVars>>

SysRemoveNode(node_id) ==
    /\ SysApply(SysRemoveNodeOp(s_nodes, s_edges, connected_edges, node_id))
    /\ call' = [op |-> "sys.remove_node", id |-> node_id]
    /\ UNCHANGED <<entVars, edge, driving, restVars>>

SysAddEdge(e) ==
    /\ SysApply(SysAddEdgeOp(s_nodes, s_edges, connected_edges, e))
    /\ call' = [op |-> "sys.add_edge", id |-> e.id, edge |-> e]
    /\ UNCHANGED <<entVars, edge, driving, restVars>>

SysRemoveEdge(edge_id) ==
    /\ SysApply(SysRemoveEdgeOp(s_nodes, s_edges, connected_edges, edge_id))
    /\ call' = [op |-> "sys.remove_edge", id |-> edge_id]
    /\ UNCHANGED <<entVars, edge, driving, restVars>>

SysClear ==
    /\ s_nodes' = EmptyDict
    /\ s_edges' = EmptyDict
    /\ call' = [op |-> "sys.clear"]
    /\ ret' = RetNone
    /\ UNCHANGED <<connected_edges, entVars, edge, driving, restVars>>

SysGetEdgesFromNode(node_id) ==
    /\ ret' = RetList(SysGetEdgesFromNodeOp(s_nodes, s_edges, connected_edges,
                                            node_id))
    /\ call' = [op |-> "sys.get_edges_from_node", id |-> node_id]
    /\ UNCHANGED <<sysVars, entVars, edge, driving, restVars>>

SysGetNeighbors(node_id) ==
    /\ ret' = RetList(SysGetNeighborsOp(s_nodes, s_edges, connected_edges,
                                        node_id))
    /\ call' = [op |-> "sys.get_neighbors", id |-> node_id]
    /\ UNCHANGED <<sysVars, entVars, edge, driving, restVars>>

\* w = WorldMap.from_dict(data), the application going on with w
SysFromDict(data) ==
    /\ SysApply(SysFromDictOp(connected_edges, data))
    /\ call' = [op |-> "sys.from_dict", data |-> data]
    /\ UNCHANGED <<entVars, edge, driving, restVars>>

(***************************************************************************)
(* systems/world_map.py : Edge flow bookkeeping, on the standalone Edge    *)
(***************************************************************************)
EdgeCanAccommodate(e, flow) == (e.current_flow + flow) <= e.throughput

\* add_flow that fills the edge up to its throughput when the amount does
\* not fit
EdgeAddFlowOp_Partial(e, amount) ==
    IF EdgeCanAccommodate(e, amount)
    THEN [edge |-> [e EXCEPT !.current_flow = @ + amount], ret |-> RetBool(TRUE)]
    ELSE [edge |-> [e EXCEPT !.current_flow = e.throughput], ret |-> RetBool(FALSE)]

EdgeAddFlowOp(e, amount) ==
    IF EdgeCanAccommodate(e, amount)
    THEN [edge |-> [e EXCEPT !.current_flow = @ + amount], ret |-> RetBool(TRUE)]
    ELSE [edge |-> e, ret |-> RetBool(FALSE)]

Max(a, b) == IF a >= b THEN a ELSE b

EdgeRemoveFlowOp(e, amount) ==
    [edge |-> [e EXCEPT !.current_flow = Max(0, @ - amount)], ret |-> RetNone]

EdgeResetFlowOp(e) ==
    [edge |-> [e EXCEPT !.current_flow = 0], ret |-> RetNone]

Abs(x) == IF x < 0 THEN 0 - x ELSE x

\* Edge(edge_id, from_node_id, to_node_id, throughput)
EdgeNew(throughput) ==
    /\ edge' = SysEdge("e1", "a", "b", throughput, TRUE)
    /\ call' = [op |-> "Edge", throughput |-> throughput]
    /\ ret' = RetNone
    /\ UNCHANGED <<sysVars, entVars, driving, restVars>>

EdgeAddFlow(amount) ==
    /\ LET r == EdgeAddFlowOp(edge, amount)
       IN  edge' = r.edge /\ ret' = r.ret
    /\ call' = [op |-> "edge.add_flow", amount |-> amount]
    /\ UNCHANGED <<sysVars, entVars, driving, restVars>>

EdgeRemoveFlow(amount) ==
    /\ LET r == EdgeRemoveFlowOp(edge, amount)
       IN  edge' = r.edge /\ ret' = r.ret
    /\ call' = [op |-> "edge.remove_flow", amount |-> amount]
    /\ UNCHANGED <<sysVars, entVars, driving, restVars>>

EdgeResetFlow ==
    /\ LET r == EdgeResetFlowOp(edge)
       IN  edge' = r.edge /\ ret' = r.ret
    /\ call' = [op |-> "edge.reset_flow"]
    /\ UNCHANGED <<sysVars, entVars, driving, restVars>>

\* get_edge(edge_id).add_flow(amount) on an edge of the systems map
SysMapEdgeAddFlow(edge_id, amount) ==
    /\ edge_id \in DOMAIN s_edges
    /\ LET r == EdgeAddFlowOp(s_edges[edge_id], amount)
       IN  s_edges' = DictPut(s_edges, edge_id, r.edge) /\ ret' = r.ret
    /\ call' = [op |-> "sys.edge.add_flow", id |-> edge_id, amount |-> amount]
    /\ UNCHANGED <<s_nodes, connected_edges, entVars, edge, driving, restVars>>

\* Edge(edge_id, from_node_id, to_node_id, bidirectional=...) built by the
\* caller with chosen endpoints
EdgeNewDirected(from_node_id, to_node_id, bidirectional) ==
    /\ edge' = SysEdge("e1", from_node_id, to_node_id, 1, bidirectional)
    /\ call' = [op |-> "Edge", throughput |-> 1]
    /\ ret' = RetNone
    /\ UNCHANGED <<sysVars, entVars, driving, restVars>>

EdgeGetOtherNode(node_id) ==
    /\ ret' = RetObj(SysGetOtherNode(edge, node_id))
    /\ call' = [op |-> "edge.get_other_node", node_id |-> node_id]
    /\ UNCHANGED <<edge, sysVars, entVars, driving, restVars>>

(***************************************************************************)
(* entities/world_map.py : Node, Edge                                      *)
(***************************************************************************)
EntNode(node_id, x, y, name) ==
    [node_id |-> node_id, x |-> x, y |-> y, name |-> name]

EntEdge(edge_id, from_node, to_node, throughput, bidirectional) ==
    [edge_id |-> edge_id, from_node |-> from_node, to_node |-> to_node,
     throughput |-> throughput, bidirectional |-> bidirectional]

EntConnects(e, node_id) == node_id = e.from_node \/ node_id = e.to_node

EntOtherNode_Undirected(e, node_id) ==
    IF node_id = e.from_node THEN e.to_node
    ELSE IF node_id = e.to_node THEN e.from_node
    ELSE None

EntOtherNode(e, node_id) ==
    IF node_id = e.from_node THEN e.to_node
    ELSE IF node_id = e.to_node /\ e.bidirectional THEN e.from_node
    ELSE None

(***************************************************************************)
(* The edges dict of the entities map keeps insertion order (find_path and *)
(* get_neighbors iterate it): a sequence of Edge records keyed by edge_id. *)
(***************************************************************************)
OdKeys(d) == {d[i].edge_id : i \in 1..Len(d)}
OdGet(d, k) == d[CHOOSE i \in 1..Len(d) : d[i].edge_id = k]
\* d[k] = v: an existing key keeps its position, a new key goes last
OdPut(d, k, v) ==
    IF k \in OdKeys(d)
    THEN [i \in 1..Len(d) |-> IF d[i].edge_id = k THEN v ELSE d[i]]
    ELSE Append(d, v)
\* del d[k]
OdDel(d, k) == SelectSeq(d, LAMBDA e : e.edge_id /= k)

(***************************************************************************)
(* entities/world_map.py : WorldMap                                        *)
(***************************************************************************)
\* f"{prefix}_{n}" for the two default prefixes
NodeIdNames == <<"node_0", "node_1", "node_2", "node_3", "node_4", "node_5">>
EdgeIdNames == <<"edge_0", "edge_1", "edge_2", "edge_3", "edge_4", "edge_5">>
FormatNodeId(n) == NodeIdNames[n + 1]
FormatEdgeId(n) == EdgeIdNames[n + 1]

EntState(nodes, edges, nn, ne, r) ==
    [nodes |-> nodes, edges |-> edges, next_node_id |-> nn,
     next_edge_id |-> ne, ret |-> r]

\* add_node(x, y, name, node_id); node_id = None asks for a generated ID
EntAddNodeOp(nodes, edges, nn, ne, x, y, name, node_id) ==
    LET id  == IF node_id = None THEN FormatNodeId(nn) ELSE node_id
        nn1 == IF node_id = None THEN nn + 1 ELSE nn
        node == EntNode(id, x, y, name)
    IN  EntState(DictPut(nodes, id, node), edges, nn1, ne, RetObj(node))

\* the loop `for edge_id in edges_to_remove: del self.edges[edge_id]`
RECURSIVE EntDelEdges(_, _)
EntDelEdges(edges, edges_to_remove) ==
    IF edges_to_remove = <<>> THEN edges
    ELSE EntDelEdges(OdDel(edges, Head(edges_to_remove)), Tail(edges_to_remove))

\* remove_node without the removal of the connected edges
EntRemoveNodeOp_NoCascade(nodes, edges, nn, ne, node_id) ==
    IF node_id \notin DOMAIN nodes
    THEN EntState(nodes, edges, nn, ne, RetBool(FALSE))
    ELSE EntState(DictDel(nodes, node_id), edges, nn, ne, RetBool(TRUE))

EntRemoveNodeOp(nodes, edges, nn, ne, node_id) ==
    IF node_id \notin DOMAIN nodes
    THEN EntState(nodes, edges, nn, ne, RetBool(FALSE))
    ELSE LET connected == SelectSeq(edges, LAMBDA e : EntConnects(e, node_id))
             edges_to_remove == [i \in 1..Len(connected) |-> connected[i].edge_id]
         IN  EntState(DictDel(nodes, node_id),
                      EntDelEdges(edges, edges_to_remove),
                      nn, ne, RetBool(TRUE))

\* add_edge that draws the edge ID before it validates the endpoints
EntAddEdgeOp_GenFirst(nodes, edges, nn, ne, from_node, to_node, throughput, bidirectional, edge_id) ==
    LET id  == IF edge_id = None THEN FormatEdgeId(ne) ELSE edge_id
        ne1 == IF edge_id = None THEN ne + 1 ELSE ne
        e == EntEdge(id, from_node, to_node, throughput, bidirectional)
    IN  IF from_node \notin DOMAIN nodes \/ to_node \notin DOMAIN nodes
        THEN EntState(nodes, edges, nn, ne1, RetNone)
        ELSE EntState(nodes, OdPut(edges, id, e), nn, ne1, RetObj(e))

\* add_edge(from_node, to_node, throughput, bidirectional, edge_id)
EntAddEdgeOp(nodes, edges, nn, ne, from_node, to_node, throughput, bidirectional, edge_id) ==
    IF from_node \notin DOMAIN nodes \/ to_node \notin DOMAIN nodes
    THEN EntState(nodes, edges, nn, ne, RetNone)
    ELSE LET id  == IF edge_id = None THEN FormatEdgeId(ne) ELSE edge_id
             ne1 == IF edge_id = None THEN ne + 1 ELSE ne
             e == EntEdge(id, from_node, to_node, throughput, bidirectional)
         IN  EntState(nodes, OdPut(edges, id, e), nn, ne1, RetObj(e))

EntRemoveEdgeOp(nodes, edges, nn, ne, edge_id) ==
    IF edge_id \in OdKeys(edges)
    THEN EntState(nodes, OdDel(edges, edge_id), nn, ne, RetBool(TRUE))
    ELSE EntState(nodes, edges, nn, ne, RetBool(FALSE))

\* get_neighbors: the list of (neighbor_node_id, edge), in dict order
RECURSIVE EntGetNeighbors(_, _)
EntGetNeighbors(edges, node_id) ==
    IF edges = <<>> THEN <<>>
    ELSE LET other == EntOtherNode(Head(edges), node_id)
             rest == EntGetNeighbors(Tail(edges), node_id)
         IN  IF Truthy(other) THEN <<<<other, Head(edges)>>>> \o rest ELSE rest

\* the body of `for neighbor_id, _ in self.get_neighbors(current)`:
\* the path returned from inside the loop, or the queue and visited set
\* the loop leaves behind
RECURSIVE BfsScan(_, _, _, _, _)
BfsScan(neighbors, path, to_node, visited, queue) ==
    IF neighbors = <<>>
    THEN [found |-> FALSE, visited |-> visited, queue |-> queue]
    ELSE LET neighbor_id == Head(neighbors)[1]
         IN  IF neighbor_id = to_node
             THEN [found |-> TRUE, path |-> Append(path, neighbor_id)]
             ELSE IF neighbor_id \notin visited
             THEN BfsScan(Tail(neighbors), path, to_node,
                          visited \cup {neighbor_id},
                          Append(queue, <<neighbor_id, Append(path, neighbor_id)>>))
             ELSE BfsScan(Tail(neighbors), path, to_node, visited, queue)

\* `while queue:` with queue.pop(0)
RECURSIVE BfsLoop(_, _, _, _)
BfsLoop(edges, to_node, visited, queue) ==
    IF queue = <<>> THEN RetNone
    ELSE LET current == Head(queue)[1]
             path == Head(queue)[2]
             r == BfsScan(EntGetNeighbors(edges, current), path, to_node,
                          visited, Tail(queue))
         IN  IF r.found THEN RetList(r.path)
             ELSE BfsLoop(edges, to_node, r.visited, r.queue)

EntFindPathOp_SameFirst(nodes, edges, from_node, to_node) ==
    IF from_node = to_node THEN RetList(<<from_node>>)
    ELSE IF from_node \notin DOMAIN nodes \/ to_node \notin DOMAIN nodes
    THEN RetNone
    ELSE BfsLoop(edges, to_node, {from_node}, <<<<from_node, <<from_node>>>>>>)

EntFindPathOp(nodes, edges, from_node, to_node) ==
    IF from_node \notin DOMAIN nodes \/ to_node \notin DOMAIN nodes
    THEN RetNone
    ELSE IF from_node = to_node THEN RetList(<<from_node>>)
    ELSE BfsLoop(edges, to_node, {from_node}, <<<<from_node, <<from_node>>>>>>)

\* Node.to_dict / Node.from_dict
EntNodeToDict(n) ==
    [node_id |-> n.node_id, x |-> n.x, y |-> n.y, name |-> n.name]

EntNodeFromDict(data) == EntNode(data.node_id, data.x, data.y, data.name)

\* Edge.to_dict / Edge.from_dict
EntEdgeToDict(e) ==
    [edge_id |-> e.edge_id, from_node |-> e.from_node, to_node |-> e.to_node,
     throughput |-> e.throughput, bidirectional |-> e.bidirectional]

EntEdgeFromDict(data) ==
    EntEdge(data.edge_id, data.from_node, data.to_node, data.throughput,
            data.bidirectional)

\* WorldMap.to_dict: 'nodes' maps each key to the node's record; 'edges'
\* keeps the insertion order of the edges dict, as <<key, record>> items.
EntToDictOp(nodes, edges, nn, ne) ==
    [nodes |-> [k \in DOMAIN nodes |-> EntNodeToDict(nodes[k])],
     edges |-> [i \in 1..Len(edges) |-> <<edges[i].edge_id, EntEdgeToDict(edges[i])>>],
     next_node_id |-> nn,
     next_edge_id |-> ne]

RECURSIVE EntRestoreEdges(_, _)
\* for edge_id, edge_data in data['edges'].items():
\*     world_map.edges[edge_id] = Edge.from_dict(edge_data)
EntRestoreEdges(edges, items) ==
    IF items = <<>> THEN edges
    ELSE EntRestoreEdges(OdPut(edges, Head(items)[1], EntEdgeFromDict(Head(items)[2])),
                         Tail(items))

\* from_dict that leaves the counters of the new map at their initial value
EntFromDictOp_NoCounters(data) ==
    EntState([k \in DOMAIN data.nodes |-> EntNodeFromDict(data.nodes[k])],
             EntRestoreEdges(<<>>, data.edges), 0, 0, RetNone)

\* WorldMap.from_dict: no check relates the edges to the nodes.  The map
\* returned becomes the map of the application.
EntFromDictOp(data) ==
    EntState([k \in DOMAIN data.nodes |-> EntNodeFromDict(data.nodes[k])],
             EntRestoreEdges(<<>>, data.edges),
             data.next_node_id, data.next_edge_id, RetNone)

EntApply(st) ==
    /\ e_nodes' = st.nodes
    /\ e_edges' = st.edges
    /\ next_node_id' = st.next_node_id
    /\ next_edge_id' = st.next_edge_id
    /\ ret' = st.ret

EntAddNode(x, y, name, node_id) ==
    /\ EntApply(EntAddNodeOp(e_nodes, e_edges, next_node_id, next_edge_id,
                             x, y, name, node_id))
    /\ call' = [op |-> "ent.add_node", node_id |-> node_id, x |-> x, y |-> y]
    /\ UNCHANGED <<sysVars, edge, driving, restVars>>

EntRemoveNode(node_id) ==
    /\ EntApply(EntRemoveNodeOp(e_nodes, e_edges, next_node_id, next_edge_id,
                                node_id))
    /\ call' = [op |-> "ent.remove_node", id |-> node_id]
    /\ UNCHANGED <<sysVars, edge, driving, restVars>>

EntAddEdge(from_node, to_node, throughput, bidirectional, edge_id) ==
    /\ EntApply(EntAddEdgeOp(e_nodes, e_edges, next_node_id, next_edge_id,
                             from_node, to_node, throughput, bidirectional,
                             edge_id))
    /\ call' = [op |-> "ent.add_edge", edge_id |-> edge_id,
                from_node |-> from_node, to_node |-> to_node,
                bidirectional |-> bidirectional]
    /\ UNCHANGED <<sysVars, edge, driving, restVars>>

EntRemoveEdge(edge_id) ==
    /\ EntApply(EntRemoveEdgeOp(e_nodes, e_edges, next_node_id, next_edge_id,
                                edge_id))
    /\ call' = [op |-> "ent.remove_edge", id |-> edge_id]
    /\ UNCHANGED <<sysVars, edge, driving, restVars>>

\* clear that also restarts the ID counters
EntClear_ResetCounters ==
    /\ e_nodes' = EmptyDict
    /\ e_edges' = <<>>
    /\ next_node_id' = 0
    /\ next_edge_id' = 0
    /\ call' = [op |-> "ent.clear"]
    /\ ret' = RetNone
    /\ UNCHANGED <<sysVars, edge, driving, restVars>>

EntClear ==
    /\ e_nodes' = EmptyDict
    /\ e_edges' = <<>>
    /\ call' = [op |-> "ent.clear"]
    /\ ret' = RetNone
    /\ UNCHANGED <<next_node_id, next_edge_id, sysVars, edge, driving, restVars>>

EntFindPath(from_node, to_node) ==
    /\ ret' = EntFindPathOp(e_nodes, e_edges, from_node, to_node)
    /\ call' = [op |-> "ent.find_path", from_node |-> from_node,
                to_node |-> to_node]
    /\ UNCHANGED <<entVars, sysVars, edge, driving, restVars>>

EntGetNodeEdgesOp(edges, node_id) ==
    SelectSeq(edges, LAMBDA e : EntConnects(e, node_id))

EntGetNodeEdges(node_id) ==
    /\ ret' = RetList(EntGetNodeEdgesOp(e_edges, node_id))
    /\ call' = [op |-> "ent.get_node_edges", id |-> node_id]
    /\ UNCHANGED <<entVars, sysVars, edge, driving, restVars>>

EntGetNeighborsCall(node_id) ==
    /\ ret' = RetList(EntGetNeighbors(e_edges, node_id))
    /\ call' = [op |-> "ent.get_neighbors", id |-> node_id]
    /\ UNCHANGED <<entVars, sysVars, edge, driving, restVars>>

\* m = WorldMap.from_dict(data), the application going on with m
EntFromDict(data) ==
    /\ EntApply(EntFromDictOp(data))
    /\ call' = [op |-> "ent.from_dict", data |-> data]
    /\ UNCHANGED <<sysVars, edge, driving, restVars>>

\* generate_node_id() and generate_edge_id() with the default prefix
EntGenerateNodeId ==
    /\ ret' = RetObj(FormatNodeId(next_node_id))
    /\ next_node_id' = next_node_id + 1
    /\ call' = [op |-> "ent.generate_node_id"]
    /\ UNCHANGED <<e_nodes, e_edges, next_edge_id, sysVars, edge, driving, restVars>>

EntGenerateEdgeId ==
    /\ ret' = RetObj(FormatEdgeId(next_edge_id))
    /\ next_edge_id' = next_edge_id + 1
    /\ call' = [op |-> "ent.generate_edge_id"]
    /\ UNCHANGED <<e_nodes, e_edges, next_node_id, sysVars, edge, driving, restVars>>

\* math.sqrt(n) <= radius for an integer n >= 0 and an integer radius: the
\* root lies between Isqrt(n) and Isqrt(n) + 1 and equals Isqrt(n) only for a
\* perfect square.
Isqrt(n) == CHOOSE k \in 0..n : k * k <= n /\ n < (k + 1) * (k + 1)

SqrtLeq(n, radius) ==
    \/ Isqrt(n) < radius
    \/ Isqrt(n) = radius /\ Isqrt(n) * Isqrt(n) = n

\* the test of get_nodes_in_radius made with `<` in place of `<=`
EntInRadius_Strict(node, center_x, center_y, radius) ==
    LET dx == node.x - center_x
        dy == node.y - center_y
    IN  SqrtLeq(dx * dx + dy * dy, radius)
        /\ ~(Isqrt(dx * dx + dy * dy) = radius)

\* the test of the loop of get_nodes_in_radius on one node
EntInRadius(node, center_x, center_y, radius) ==
    LET dx == node.x - center_x
        dy == node.y - center_y
    IN  SqrtLeq(dx * dx + dy * dy, radius)

\* get_nodes_in_radius: the nodes that pass the test (the order of the list,
\* that of the nodes dict, is not modelled)
EntGetNodesInRadiusOp(nodes, center_x, center_y, radius) ==
    {nodes[k] : k \in {j \in DOMAIN nodes :
                          EntInRadius(nodes[j], center_x, center_y, radius)}}

EntGetNodesInRadius(center_x, center_y, radius) ==
    /\ ret' = [t |-> "set",
               v |-> EntGetNodesInRadiusOp(e_nodes, center_x, center_y, radius)]
    /\ call' = [op |-> "ent.get_nodes_in_radius", center_x |-> center_x,
                center_y |-> center_y, radius |-> radius]
    /\ UNCHANGED <<entVars, sysVars, edge, driving, restVars>>

\* get_edge(edge_id).other_node(node_id) on an edge of the map
EntEdgeOtherNode(edge_id, node_id) ==
    /\ edge_id \in OdKeys(e_edges)
    /\ ret' = RetObj(EntOtherNode(OdGet(e_edges, edge_id), node_id))
    /\ call' = [op |-> "ent.edge.other_node", edge_id |-> edge_id,
                node_id |-> node_id]
    /\ UNCHANGED <<entVars, sysVars, edge, driving, restVars>>

(***************************************************************************)
(* The two maps driven side by side: each step makes the same call on the  *)
(* systems map and on the entities map.  The systems map is given a new    *)
(* Node object (its incidence list empty) or a new Edge object at each add.*)
(* The value returned is the pair of the two results.                      *)
(***************************************************************************)
RetPair(s, e) == [t |-> "pair", sys |-> s, ent |-> e]

DualApply(s, e) ==
    /\ s_nodes' = s.nodes
    /\ s_edges' = s.edges
    /\ connected_edges' = s.conn
    /\ e_nodes' = e.nodes
    /\ e_edges' = e.edges
    /\ next_node_id' = e.next_node_id
    /\ next_edge_id' = e.next_edge_id
    /\ ret' = RetPair(s.ret, e.ret)
    /\ UNCHANGED <<edge, driving, restVars>>

DualAddNode(node_id) ==
    /\ node_id \notin DOMAIN s_nodes
    /\ node_id \notin DOMAIN e_nodes
    /\ LET o == SysLoadedObj(node_id)
       IN  DualApply(SysAddNodeOp(s_nodes, s_edges,
                                  [connected_edges EXCEPT ![o] = <<>>], o),
                     EntAddNodeOp(e_nodes, e_edges, next_node_id, next_edge_id,
                                  0, 0, None, node_id))
    /\ call' = [op |-> "dual.add_node", id |-> node_id]

DualAddEdge(edge_id, from_node, to_node, throughput, bidirectional) ==
    /\ edge_id \notin DOMAIN s_edges
    /\ edge_id \notin OdKeys(e_edges)
    /\ DualApply(SysAddEdgeOp(s_nodes, s_edges, connected_edges,
                              SysEdge(edge_id, from_node, to_node, throughput,
                                      bidirectional)),
                 EntAddEdgeOp(e_nodes, e_edges, next_node_id, next_edge_id,
                              from_node, to_node, throughput, bidirectional,
                              edge_id))
    /\ call' = [op |-> "dual.add_edge", id |-> edge_id]

DualRemoveNode(node_id) ==
    /\ DualApply(SysRemoveNodeOp(s_nodes, s_edges, connected_edges, node_id),
                 EntRemoveNodeOp(e_nodes, e_edges, next_node_id, next_edge_id,
                                 node_id))
    /\ call' = [op |-> "dual.remove_node", id |-> node_id]

DualRemoveEdge(edge_id) ==
    /\ DualApply(SysRemoveEdgeOp(s_nodes, s_edges, connected_edges, edge_id),
                 EntRemoveEdgeOp(e_nodes, e_edges, next_node_id, next_edge_id,
                                 edge_id))
    /\ call' = [op |-> "dual.remove_edge", id |-> edge_id]

DualClear ==
    /\ DualApply(SysState(EmptyDict, EmptyDict, connected_edges, RetNone),
                 EntState(EmptyDict, <<>>, next_node_id, next_edge_id, RetNone))
    /\ call' = [op |-> "dual.clear"]

(***************************************************************************)
(* core/events.py : EventDispatcher                                        *)
(*                                                                         *)
(* An event type is a pygame constant (an int) or a custom string; the     *)
(* pygame constants are written by their names.  The two listener dicts    *)
(* are defaultdicts read with `.get(type, [])`: a missing key and an empty *)
(* list are the same, so each dict is a function over its event types.     *)
(* EventListener and GameEvent objects carry an `id`, their identity: the  *)
(* number of objects of the class created before them, plus one.           *)
(***************************************************************************)
\* EventPriority
LOW == 0
NORMAL == 1
HIGH == 2
CRITICAL == 3
EventPriority == {LOW, NORMAL, HIGH, CRITICAL}

PygameTypes == {"KEYDOWN"}
CustomTypes == {"t", "u"}

\* The callbacks the application subscribes.  Each is called with the event:
\*   record   does nothing with the dispatcher;
\*   chain    dispatches a custom event "u";
\*   install  subscribes `record` to the event's type with HIGH priority,
\*            the first time it is called;
\*   drop     unsubscribes `record` from the event's type.
Callbacks == {"record", "chain", "install", "drop"}

EventListener(callback, priority, id) == [callback |-> callback, priority |-> priority, id |-> id]
GameEvent(event_type, id) == [event_type |-> event_type, id |-> id]

EventDispatcherInit ==
    [pygame_listeners |-> [k \in PygameTypes |-> <<>>],
     custom_listeners |-> [k \in CustomTypes |-> <<>>],
     event_queue |-> <<>>]

\* The dispatcher together with what its listeners touch.
EvState(d, log, inst, n) == [dispatcher |-> d, invoked |-> log, installed |-> inst, created |-> n]

\* list.sort(key=lambda x: x.priority, reverse=True): a stable sort, the
\* listeners of equal priority keep their order in the list.
RECURSIVE SortByPriority(_)
SortByPriority(listeners) ==
    IF listeners = <<>> THEN <<>>
    ELSE LET n == Len(listeners)
             x == listeners[n]
             sorted == SortByPriority(SubSeq(listeners, 1, n - 1))
         IN  SelectSeq(sorted, LAMBDA l : l.priority >= x.priority)
             \o <<x>>
             \o SelectSeq(sorted, LAMBDA l : l.priority < x.priority)

\* subscribe(event_type, callback, priority); raises TypeError for an event
\* type that is neither an int nor a str (the state is then unchanged but
\* for the EventListener object already built)
EvSubscribeOp(m, event_type, callback, priority) ==
    LET listener == EventListener(callback, priority, m.created.listeners + 1)
        m1 == [m EXCEPT !.created.listeners = @ + 1]
    IN  IF event_type \in PygameTypes
        THEN [m1 EXCEPT !.dispatcher.pygame_listeners[event_type] =
                            SortByPriority(Append(@, listener))]
        ELSE IF event_type \in CustomTypes
        THEN [m1 EXCEPT !.dispatcher.custom_listeners[event_type] =
                            SortByPriority(Append(@, listener))]
        ELSE m1

\* unsubscribe(event_type, callback): binds the type to a new, filtered list
EvUnsubscribeOp(m, event_type, callback) ==
    IF event_type \in PygameTypes
    THEN [m EXCEPT !.dispatcher.pygame_listeners[event_type] =
                       SelectSeq(@, LAMBDA l : l.callback /= callback)]
    ELSE IF event_type \in CustomTypes
    THEN [m EXCEPT !.dispatcher.custom_listeners[event_type] =
                       SelectSeq(@, LAMBDA l : l.callback /= callback)]
    ELSE m

\* dispatch_custom_event(event_type): the event is queued, nothing is called
EvDispatchCustomEventOp(m, event_type) ==
    [m EXCEPT !.dispatcher.event_queue =
                  Append(@, GameEvent(event_type, m.created.events + 1)),
              !.created.events = @ + 1]

\* The body of a callback, called with `event`.
EvCallback(m, callback, event) ==
    CASE callback = "record" -> m
      [] callback = "chain" -> EvDispatchCustomEventOp(m, "u")
      [] callback = "install" ->
            IF m.installed THEN m
            ELSE EvSubscribeOp([m EXCEPT !.installed = TRUE],
                               event.event_type, "record", HIGH)
      [] callback = "drop" -> EvUnsubscribeOp(m, event.event_type, "record")

EvListenersOf(d, event_type) ==
    IF event_type \in PygameTypes THEN d.pygame_listeners[event_type]
    ELSE d.custom_listeners[event_type]

\* `for listener in listeners: listener(event)`.  The loop walks the list
\* object by index; `listeners` is that object's content and `bound` tells
\* whether the dict still holds that very object.  A subscribe inside a
\* callback appends to and sorts the dict's list in place, so the loop sees
\* it while bound; an unsubscribe inside a callback binds the dict to a new
\* list and the loop keeps walking the old one.
RECURSIVE EvDeliver(_, _, _, _, _)
EvDeliver(m, event, listeners, i, bound) ==
    IF i > Len(listeners) THEN m
    ELSE LET listener == listeners[i]
             m1 == [m EXCEPT !.invoked =
                        Append(@, [listener |-> listener.id, event |-> event.id])]
             m2 == EvCallback(m1, listener.callback, event)
             bound2 == bound /\ listener.callback /= "drop"
             listeners2 == IF bound2
                           THEN EvListenersOf(m2.dispatcher, event.event_type)
                           ELSE listeners
         IN  EvDeliver(m2, event, listeners2, i + 1, bound2)

\* dispatch_pygame_event(event)
EvDispatchPygameEventOp(m, event) ==
    EvDeliver(m, event, m.dispatcher.pygame_listeners[event.event_type], 1, TRUE)

\* process_custom_events(): `while self._event_queue: event = pop(0); ...`
RECURSIVE EvProcessCustomEventsOp(_)
EvProcessCustomEventsOp(m) ==
    IF m.dispatcher.event_queue = <<>> THEN m
    ELSE LET event == Head(m.dispatcher.event_queue)
             m1 == [m EXCEPT !.dispatcher.event_queue = Tail(@)]
         IN  EvProcessCustomEventsOp(
                 EvDeliver(m1, event,
                           m1.dispatcher.custom_listeners[event.event_type],
                           1, TRUE))

\* The state a call starts from: the listeners' record is emptied.
EvNow == EvState(dispatcher, <<>>, installed, created)

EvApply(m) ==
    /\ dispatcher' = m.dispatcher
    /\ invoked' = m.invoked
    /\ installed' = m.installed
    /\ created' = m.created
    /\ UNCHANGED <<worldVars, srvVars, smVars, ecoVars, aiVars>>

EvSubscribe(event_type, callback, priority) ==
    /\ created.listeners < MaxListeners
    /\ EvApply(EvSubscribeOp(EvNow, event_type, callback, priority))
    /\ call' = [op |-> "ev.subscribe", event_type |-> event_type,
                callback |-> callback, priority |-> priority]
    /\ ret' = IF event_type \in PygameTypes \cup CustomTypes THEN RetNone
              ELSE [t |-> "raise", v |-> "TypeError"]

EvUnsubscribe(event_type, callback) ==
    /\ EvApply(EvUnsubscribeOp(EvNow, event_type, callback))
    /\ call' = [op |-> "ev.unsubscribe", event_type |-> event_type,
                callback |-> callback]
    /\ ret' = RetNone

EvDispatchPygameEvent(event_type) ==
    /\ created.events < MaxEvents
    /\ LET event == GameEvent(event_type, created.events + 1)
       IN  /\ EvApply(EvDispatchPygameEventOp(
                          [EvNow EXCEPT !.created.events = @ + 1], event))
           /\ call' = [op |-> "ev.dispatch_pygame_event", event |-> event]
    /\ ret' = RetNone

EvDispatchCustomEvent(event_type) ==
    /\ created.events < MaxEvents
    /\ EvApply(EvDispatchCustomEventOp(EvNow, event_type))
    /\ call' = [op |-> "ev.dispatch_custom_event", event_type |-> event_type]
    /\ ret' = RetNone

EvProcessCustomEvents ==
    /\ EvApply(EvProcessCustomEventsOp(EvNow))
    /\ call' = [op |-> "ev.process_custom_events"]
    /\ ret' = RetNone

(***************************************************************************)
(* networking/server.py : GameServer                                       *)
(*                                                                         *)
(* Session IDs are the strings the Socket.IO transport hands out; AI       *)
(* player IDs are "ai_<n>".  Time stamps are left out of the records.      *)
(***************************************************************************)
Sids == {"s1", "s2"}
\* f"ai_{n}" and f"AI_Bot_{n}"
AiIdOf == <<"ai_1", "ai_2", "ai_3", "ai_4">>
AiNameOf == <<"AI_Bot_1", "AI_Bot_2", "AI_Bot_3", "AI_Bot_4">>
AiIds == Range(AiIdOf)
PlayerIds == Sids \cup AiIds

GameServerInit ==
    [clients |-> EmptyDict,
     ai_players |-> EmptyDict,
     players |-> EmptyDict,
     ai_counter |-> 0]

\* The `data` argument of a join: not a dict, or a dict whose 'player_name'
\* is missing, not a string, or a string.
NoKey == "<no key>"
NotStr == "<not a str>"
PlayerNames == {"Ann", " Ann ", "  ", ""}
JoinData == [is_dict : BOOLEAN, player_name : PlayerNames \cup {NoKey, NotStr}]

\* f'Player_{sid[:8]}'
DefaultName(sid) == CASE sid = "s1" -> "Player_s1" [] sid = "s2" -> "Player_s2"
\* player_name[:50].strip()
Strip(name) == CASE name = " Ann " -> "Ann" [] name = "  " -> "" [] OTHER -> name

\* lines 75-82 of join: the name the player gets
SanitizedName(sid, data) ==
    LET given == IF data.player_name = NoKey THEN DefaultName(sid)
                 ELSE data.player_name
        str == IF given = NotStr THEN DefaultName(sid) ELSE given
        stripped == Strip(str)
    IN  IF stripped = "" THEN DefaultName(sid) ELSE stripped

\* self.sio.emit(event, data, room=room); a game_state emit carries the
\* game state object itself and is recorded without it
Emit(event, room, player_id, player_name, is_ai) ==
    [event |-> event, room |-> room, player_id |-> player_id,
     player_name |-> player_name, is_ai |-> is_ai]
EmitGameState(room) == Emit("game_state", room, None, None, FALSE)
EmitAll == "<all>"

\* The server together with the events a handler emitted.
SrvState(s, out) == [server |-> s, emitted |-> out]

\* connect(sid, environ)
SrvConnectOp(s, sid) ==
    SrvState([s EXCEPT !.clients = DictPut(@, sid,
                           [player_id |-> sid, player_name |-> None])],
             <<EmitGameState(sid)>>)

\* join(sid, data) without the test for a player that has already joined
SrvJoinOp_NoDuplicateTest(s, sid, data) ==
    IF ~data.is_dict THEN SrvState(s, <<>>)
    ELSE LET player_name == SanitizedName(sid, data)
         IN  IF sid \notin DOMAIN s.clients THEN SrvState(s, <<>>)
             ELSE SrvState(
                    [s EXCEPT !.clients[sid].player_name = player_name,
                              !.players = DictPut(@, sid,
                                  [player_id |-> sid, player_name |-> player_name,
                                   is_ai |-> FALSE])],
                    <<Emit("player_joined", EmitAll, sid, player_name, FALSE),
                      EmitGameState(EmitAll)>>)

\* join(sid, data)
SrvJoinOp(s, sid, data) ==
    IF ~data.is_dict THEN SrvState(s, <<>>)
    ELSE LET player_name == SanitizedName(sid, data)
         IN  IF sid \in DOMAIN s.players THEN SrvState(s, <<>>)
             ELSE IF sid \notin DOMAIN s.clients THEN SrvState(s, <<>>)
             ELSE SrvState(
                    [s EXCEPT !.clients[sid].player_name = player_name,
                              !.players = DictPut(@, sid,
                                  [player_id |-> sid, player_name |-> player_name,
                                   is_ai |-> FALSE])],
                    <<Emit("player_joined", EmitAll, sid, player_name, FALSE),
                      EmitGameState(EmitAll)>>)

\* disconnect(sid)
SrvDisconnectOp(s, sid) ==
    LET player_name == IF sid \in DOMAIN s.clients
                       THEN s.clients[sid].player_name ELSE "Unknown"
        was_in_game == sid \in DOMAIN s.players
        s1 == IF was_in_game THEN [s EXCEPT !.players = DictDel(@, sid)] ELSE s
        s2 == IF sid \in DOMAIN s1.clients
              THEN [s1 EXCEPT !.clients = DictDel(@, sid)] ELSE s1
    IN  SrvState(s2,
                 IF was_in_game
                 THEN <<Emit("player_left", EmitAll, sid, player_name, FALSE),
                        EmitGameState(EmitAll)>>
                 ELSE <<>>)

\* spawn_ai_player(ai_name)
SrvSpawnAiPlayerOp(s, ai_name) ==
    LET ai_counter == s.ai_counter + 1
        ai_id == AiIdOf[ai_counter]
        name == IF ai_name = None THEN AiNameOf[ai_counter] ELSE ai_name
    IN  SrvState(
            [s EXCEPT !.ai_counter = ai_counter,
                      !.ai_players = DictPut(@, ai_id,
                          [player_id |-> ai_id, player_name |-> name]),
                      !.players = DictPut(@, ai_id,
                          [player_id |-> ai_id, player_name |-> name,
                           is_ai |-> TRUE])],
            <<Emit("player_joined", EmitAll, ai_id, name, TRUE),
              EmitGameState(EmitAll)>>)

\* remove_ai_player(ai_id)
SrvRemoveAiPlayerOp(s, ai_id) ==
    IF ai_id \notin DOMAIN s.ai_players THEN SrvState(s, <<>>)
    ELSE LET ai_name == s.ai_players[ai_id].player_name
             s1 == [s EXCEPT !.ai_players = DictDel(@, ai_id)]
             s2 == IF ai_id \in DOMAIN s1.players
                   THEN [s1 EXCEPT !.players = DictDel(@, ai_id)] ELSE s1
         IN  SrvState(s2, <<Emit("player_left", EmitAll, ai_id, ai_name, TRUE),
                            EmitGameState(EmitAll)>>)

\* What a client that follows the broadcasts counts for player p.
RosterAfter(count, out, p) ==
    count
    + Len(SelectSeq(out, LAMBDA m : m.event = "player_joined" /\ m.player_id = p))
    - Len(SelectSeq(out, LAMBDA m : m.event = "player_left" /\ m.player_id = p))

SrvApply(m) ==
    /\ server' = m.server
    /\ emitted' = m.emitted
    /\ roster' = [p \in PlayerIds |-> RosterAfter(roster[p], m.emitted, p)]
    /\ UNCHANGED <<worldVars, evVars, smVars, ecoVars, aiVars>>

SrvConnect(sid) ==
    /\ SrvApply(SrvConnectOp(server, sid))
    /\ call' = [op |-> "srv.connect", sid |-> sid]
    /\ ret' = RetNone

SrvJoin(sid, data) ==
    /\ SrvApply(SrvJoinOp(server, sid, data))
    /\ call' = [op |-> "srv.join", sid |-> sid, data |-> data]
    /\ ret' = RetNone

SrvDisconnect(sid) ==
    /\ SrvApply(SrvDisconnectOp(server, sid))
    /\ call' = [op |-> "srv.disconnect", sid |-> sid]
    /\ ret' = RetNone

SrvSpawnAiPlayer(ai_name) ==
    /\ server.ai_counter < MaxAiPlayers
    /\ SrvApply(SrvSpawnAiPlayerOp(server, ai_name))
    /\ call' = [op |-> "srv.spawn_ai_player", ai_name |-> ai_name]
    /\ ret' = RetObj(AiIdOf[server.ai_counter + 1])

SrvRemoveAiPlayer(ai_id) ==
    /\ SrvApply(SrvRemoveAiPlayerOp(server, ai_id))
    /\ call' = [op |-> "srv.remove_ai_player", ai_id |-> ai_id]
    /\ ret' = RetBool(ai_id \in DOMAIN server.ai_players)

(***************************************************************************)
(* core/state_manager.py : StateManager, GameState                         *)
(*                                                                         *)
(* The GameState objects of the application count their own calls: enter() *)
(* adds one to the object's counter and exit() takes one off.              *)
(***************************************************************************)
StateObjs == {"A", "B"}
StateNames == {"menu", "play", "over"}

StateManagerInit ==
    [states |-> EmptyDict,
     current_state |-> None,
     current_state_name |-> None]

\* The state manager together with its state objects and their calls.
SmState(sm, objs, calls) == [state_manager |-> sm, state_objs |-> objs, lifecycle |-> calls]

\* GameState.enter() and GameState.exit() of the application's state objects
GameStateEnter(m, o) ==
    [m EXCEPT !.state_objs[o] = @ + 1,
              !.lifecycle = Append(@, [method |-> "enter", state |-> o])]
GameStateExit(m, o) ==
    [m EXCEPT !.state_objs[o] = @ - 1,
              !.lifecycle = Append(@, [method |-> "exit", state |-> o])]
GameStateUpdate(m, o) ==
    [m EXCEPT !.lifecycle = Append(@, [method |-> "update", state |-> o])]

\* add_state(name, state)
SmAddStateOp(m, name, state) ==
    [m EXCEPT !.state_manager.states = DictPut(@, name, state)]

\* change_state(name) that does not call exit() on the current state
SmChangeStateOp_NoExit(m, name) ==
    IF name \notin DOMAIN m.state_manager.states THEN m
    ELSE LET new == m.state_manager.states[name]
             m2 == [m EXCEPT !.state_manager.current_state = new,
                             !.state_manager.current_state_name = name]
         IN  GameStateEnter(m2, new)

\* change_state(name), when it does not raise
SmChangeStateOp(m, name) ==
    IF name \notin DOMAIN m.state_manager.states THEN m
    ELSE LET m1 == IF m.state_manager.current_state /= None
                   THEN GameStateExit(m, m.state_manager.current_state)
                   ELSE m
             new == m1.state_manager.states[name]
             m2 == [m1 EXCEPT !.state_manager.current_state = new,
                              !.state_manager.current_state_name = name]
         IN  GameStateEnter(m2, new)

\* update(dt)
SmUpdateOp(m) ==
    IF m.state_manager.current_state /= None
    THEN GameStateUpdate(m, m.state_manager.current_state)
    ELSE m

\* The state a call starts from: the record of calls is emptied.
SmNow == SmState(state_manager, state_objs, <<>>)

SmApply(m) ==
    /\ state_manager' = m.state_manager
    /\ state_objs' = m.state_objs
    /\ lifecycle' = m.lifecycle
    /\ UNCHANGED <<worldVars, evVars, srvVars, ecoVars, aiVars>>

SmAddState(name, state) ==
    /\ SmApply(SmAddStateOp(SmNow, name, state))
    /\ call' = [op |-> "sm.add_state", name |-> name, state |-> state]
    /\ ret' = RetNone

SmChangeState(name) ==
    /\ SmApply(SmChangeStateOp(SmNow, name))
    /\ call' = [op |-> "sm.change_state", name |-> name]
    /\ ret' = IF name \in DOMAIN state_manager.states THEN RetNone
              ELSE [t |-> "raise", v |-> "ValueError"]

SmUpdate ==
    /\ SmApply(SmUpdateOp(SmNow))
    /\ call' = [op |-> "sm.update"]
    /\ ret' = RetNone

(***************************************************************************)
(* entities/economy.py : EconomySystem                                     *)
(*                                                                         *)
(* Times and amounts are whole numbers of a fixed unit.                    *)
(***************************************************************************)
EconomyConfig(tick_interval, base_income_rate, base_expense_rate) ==
    [tick_interval |-> tick_interval,
     base_income_rate |-> base_income_rate,
     base_expense_rate |-> base_expense_rate,
     income_modifiers |-> EmptyDict,
     expense_modifiers |-> EmptyDict]

\* EconomySystem(config)
EconomySystemNew(config) ==
    [config |-> config,
     accumulated_time |-> 0,
     total_income |-> 0,
     total_expenses |-> 0,
     tick_count |-> 0]

EconomySystemInit == EconomySystemNew(EconomyConfig(2, 2, 1))

\* base rate times every modifier of the dict
RECURSIVE ApplyModifiers(_, _)
ApplyModifiers(rate, modifiers) ==
    IF DOMAIN modifiers = {} THEN rate
    ELSE LET name == CHOOSE k \in DOMAIN modifiers : TRUE
         IN  ApplyModifiers(rate * modifiers[name], DictDel(modifiers, name))

TickIncome(config) == ApplyModifiers(config.base_income_rate, config.income_modifiers)
TickExpenses(config) == ApplyModifiers(config.base_expense_rate, config.expense_modifiers)

\* _process_tick(); the three callbacks are None
EcoProcessTick(e) ==
    [e EXCEPT !.tick_count = @ + 1,
              !.total_income = @ + TickIncome(e.config),
              !.total_expenses = @ + TickExpenses(e.config)]

\* update(dt): the system after the call
EcoUpdateOp(e, dt) ==
    LET e1 == [e EXCEPT !.accumulated_time = @ + dt]
    IN  IF e1.accumulated_time >= e1.config.tick_interval
        THEN EcoProcessTick([e1 EXCEPT !.accumulated_time = @ - e1.config.tick_interval])
        ELSE e1

\* update(dt): the (income, expenses) tuple returned
EcoUpdateRet(e, dt) ==
    IF e.accumulated_time + dt >= e.config.tick_interval
    THEN <<TickIncome(e.config), TickExpenses(e.config)>>
    ELSE <<0, 0>>

EcoFrame == UNCHANGED <<worldVars, evVars, srvVars, smVars, aiVars>>

EcoUpdate(dt) ==
    /\ elapsed + dt <= MaxElapsed
    /\ economy' = EcoUpdateOp(economy, dt)
    /\ elapsed' = elapsed + dt
    /\ call' = [op |-> "eco.update", dt |-> dt]
    /\ ret' = [t |-> "tuple", v |-> EcoUpdateRet(economy, dt)]
    /\ EcoFrame

\* add_income_modifier(name, multiplier), add_expense_modifier(name, multiplier)
EcoAddIncomeModifier(name, multiplier) ==
    /\ economy' = [economy EXCEPT !.config.income_modifiers = DictPut(@, name, multiplier)]
    /\ call' = [op |-> "eco.add_income_modifier", name |-> name, multiplier |-> multiplier]
    /\ ret' = RetNone
    /\ UNCHANGED elapsed
    /\ EcoFrame

EcoAddExpenseModifier(name, multiplier) ==
    /\ economy' = [economy EXCEPT !.config.expense_modifiers = DictPut(@, name, multiplier)]
    /\ call' = [op |-> "eco.add_expense_modifier", name |-> name, multiplier |-> multiplier]
    /\ ret' = RetNone
    /\ UNCHANGED elapsed
    /\ EcoFrame

\* remove_income_modifier(name)
EcoRemoveIncomeModifier(name) ==
    /\ economy' = IF name \in DOMAIN economy.config.income_modifiers
                  THEN [economy EXCEPT !.config.income_modifiers = DictDel(@, name)]
                  ELSE economy
    /\ call' = [op |-> "eco.remove_income_modifier", name |-> name]
    /\ ret' = RetBool(name \in DOMAIN economy.config.income_modifiers)
    /\ UNCHANGED elapsed
    /\ EcoFrame

\* reset_tick_count()
EcoResetTickCount ==
    /\ economy' = [economy EXCEPT !.tick_count = 0, !.total_income = 0,
                                  !.total_expenses = 0, !.accumulated_time = 0]
    /\ elapsed' = 0
    /\ call' = [op |-> "eco.reset_tick_count"]
    /\ ret' = RetNone
    /\ EcoFrame

(***************************************************************************)
(* systems/ai_player.py : AIPlayer                                         *)
(*                                                                         *)
(* Times are in half seconds, so that the decision interval of the "hard"  *)
(* difficulty (1.5 s) is a whole number.  The statistics counters          *)
(* actions_taken and decisions_made are left out.                          *)
(***************************************************************************)
\* _get_decision_interval() for the "hard" difficulty
DecisionInterval == 3

\* AIPlayer(player_id, name, ResourceManager(starting_money), "hard")
AIPlayerNew(starting_money) ==
    [state |-> "idle",
     decision_timer |-> 0,
     decision_interval |-> DecisionInterval,
     decision_hooks |-> <<>>,
     action_queue |-> <<>>,
     money |-> starting_money]

AIPlayerInit == AIPlayerNew(3)

\* The actions the application and its hooks queue: dicts with a 'cost'.
AiAction(type, cost) == [type |-> type, cost |-> cost]
\* The decision hooks of the application: `pass` returns None, the others
\* return an action.  A result is written as the list of the actions
\* returned: empty for None, which `if action:` skips.
AiHooks == {"pass", "build", "buy"}
AiHookResult(hook) ==
    CASE hook = "pass" -> <<>>
      [] hook = "build" -> <<AiAction("build", 0)>>
      [] hook = "buy" -> <<AiAction("buy", 2)>>

\* `for hook in self._decision_hooks: action = hook(game_state); if action:
\* self._action_queue.append(action)`
RECURSIVE AiCallHooks(_, _)
AiCallHooks(queue, hooks) ==
    IF hooks = <<>> THEN queue
    ELSE AiCallHooks(queue \o AiHookResult(Head(hooks)), Tail(hooks))

\* _make_decision(game_state)
AiMakeDecision(a) ==
    LET a1 == [a EXCEPT !.state = "planning"]
        a2 == [a1 EXCEPT !.action_queue = AiCallHooks(@, a1.decision_hooks)]
    IN  IF a2.action_queue /= <<>>
        THEN [a2 EXCEPT !.state = "executing"]
        ELSE [a2 EXCEPT !.state = "idle"]

\* _can_execute_action(action) with ResourceManager.can_afford
AiCanExecuteAction(money, action) ==
    IF action.cost > 0 THEN money >= action.cost ELSE TRUE

\* _execute_action(action) with ResourceManager.remove_money: the money left
AiExecuteAction(money, action) ==
    IF action.cost > 0 /\ money >= action.cost THEN money - action.cost ELSE money

\* the first loop of _execute_actions from index i on: the money left and
\* the actions executed, in order
RECURSIVE AiExecuteLoop(_, _, _, _)
AiExecuteLoop(queue, i, money, actions_to_remove) ==
    IF i > Len(queue) THEN [money |-> money, actions_to_remove |-> actions_to_remove]
    ELSE IF AiCanExecuteAction(money, queue[i])
    THEN AiExecuteLoop(queue, i + 1, AiExecuteAction(money, queue[i]),
                       Append(actions_to_remove, queue[i]))
    ELSE AiExecuteLoop(queue, i + 1, money, actions_to_remove)

\* `for action in actions_to_remove: self._action_queue.remove(action)`
RECURSIVE ListRemoveAll(_, _)
ListRemoveAll(l, xs) ==
    IF xs = <<>> THEN l ELSE ListRemoveAll(ListRemove(l, Head(xs)), Tail(xs))

\* _execute_actions(dt)
AiExecuteActions(a) ==
    IF a.action_queue = <<>> THEN a
    ELSE LET done == AiExecuteLoop(a.action_queue, 1, a.money, <<>>)
             queue == ListRemoveAll(a.action_queue, done.actions_to_remove)
         IN  [a EXCEPT !.money = done.money,
                       !.action_queue = queue,
                       !.state = IF queue = <<>> THEN "idle" ELSE @]

\* update(dt, game_state)
AiUpdateOp(a, dt) ==
    LET a1 == [a EXCEPT !.decision_timer = @ + dt]
        a2 == IF a1.decision_timer >= a1.decision_interval
              THEN AiMakeDecision([a1 EXCEPT !.decision_timer = 0])
              ELSE a1
    IN  AiExecuteActions(a2)

AiFrame == UNCHANGED <<worldVars, evVars, srvVars, smVars, ecoVars>>

AiUpdate(dt) ==
    /\ Len(ai_player.action_queue) <= MaxActions
    /\ ai_player' = AiUpdateOp(ai_player, dt)
    /\ call' = [op |-> "ai.update", dt |-> dt]
    /\ ret' = RetNone
    /\ AiFrame

\* queue_action(action)
AiQueueAction(action) ==
    /\ Len(ai_player.action_queue) < MaxActions
    /\ ai_player' = [ai_player EXCEPT !.action_queue = Append(@, action)]
    /\ call' = [op |-> "ai.queue_action", action |-> action]
    /\ ret' = RetNone
    /\ AiFrame

\* clear_action_queue()
AiClearActionQueue ==
    /\ ai_player' = [ai_player EXCEPT !.action_queue = <<>>]
    /\ call' = [op |-> "ai.clear_action_queue"]
    /\ ret' = RetNone
    /\ AiFrame

\* add_decision_hook(hook)
AiAddDecisionHook(hook) ==
    /\ Len(ai_player.decision_hooks) < MaxHooks
    /\ ai_player' = [ai_player EXCEPT !.decision_hooks = Append(@, hook)]
    /\ call' = [op |-> "ai.add_decision_hook", hook |-> hook]
    /\ ret' = RetNone
    /\ AiFrame

(***************************************************************************)
(* Initial state: both maps just constructed (empty, counters at 0), every *)
(* Node object fresh, the standalone Edge built with the default           *)
(* throughput.  The application drives one of the two implementations.     *)
(* The game services are constructed by the specifications that drive      *)
(* them; a service that has not been constructed is None.                  *)
(***************************************************************************)
MapsInit ==
    /\ s_nodes = EmptyDict
    /\ s_edges = EmptyDict
    /\ connected_edges = [o \in Objs |-> <<>>]
    /\ e_nodes = EmptyDict
    /\ e_edges = <<>>
    /\ next_node_id = 0
    /\ next_edge_id = 0
    /\ edge = SysEdge("e1", "a", "b", 1, TRUE)
    /\ driving \in {"systems", "entities"}
    /\ call = [op |-> "init"]
    /\ ret = RetNone

NoDispatcher == dispatcher = None /\ invoked = <<>> /\ installed = FALSE /\ created = None
NoServer == server = None /\ emitted = <<>> /\ roster = None
NoStateManager == state_manager = None /\ state_objs = None /\ lifecycle = <<>>
NoEconomy == economy = None /\ elapsed = 0
NoAIPlayer == ai_player = None

Init == MapsInit /\ NoDispatcher /\ NoServer /\ NoStateManager /\ NoEconomy /\ NoAIPlayer

(***************************************************************************)
(* The systems WorldMap driven by its caller                               *)
(***************************************************************************)
\* add_node, add_edge, remove_edge and remove_node with fresh or reused Node
\* objects; the edges are built with a bidirectional flag out of `flags`
SysCalls(flags) ==
    \/ \E o \in Objs : SysNewNode(o)
    \/ \E o \in Objs : SysAddNode(o)
    \/ \E n \in SysNodeIds : SysRemoveNode(n)
    \/ \E id \in SysEdgeIds, f \in SysNodeIds, t \in SysNodeIds, b \in flags :
          SysAddEdge(SysEdge(id, f, t, 1, b))
    \/ \E id \in SysEdgeIds : SysRemoveEdge(id)

\* edges built with the default flag (the add and remove calls do not read it)
SysNext ==
    \/ SysCalls({TRUE})
    \/ SysClear

(***************************************************************************)
(* The entities WorldMap driven by its caller.  The caller passes its own  *)
(* identifiers (a node ID of the generated form among them) or asks for a  *)
(* generated one; generation stops at MaxCounter.                          *)
(***************************************************************************)
EntNodeIds == {"a", "node_0"}
EntEdgeIds == {"e1"}
EntCoords == {0, 1}
GeneratedNodeIds == {FormatNodeId(n) : n \in 0..(MaxCounter - 1)}
EntAllNodeIds == EntNodeIds \cup GeneratedNodeIds

EntNext ==
    \/ \E x \in EntCoords, id \in EntNodeIds \cup {None} :
          /\ id = None => next_node_id < MaxCounter
          /\ EntAddNode(x, 0, None, id)
    \/ \E n \in EntAllNodeIds : EntRemoveNode(n)
    \/ \E f \in EntAllNodeIds, t \in EntAllNodeIds, id \in EntEdgeIds \cup {None} :
          /\ id = None => next_edge_id < MaxCounter
          /\ EntAddEdge(f, t, 1, TRUE, id)
    \/ \E id \in EntEdgeIds \cup {FormatEdgeId(n) : n \in 0..(MaxCounter - 1)} :
          EntRemoveEdge(id)
    \/ EntClear

Next ==
    \/ driving = "systems" /\ SysNext
    \/ driving = "entities" /\ EntNext

Spec == Init /\ [][Next]_vars

\* the systems map with add_node, add_edge, remove_edge and remove_node only
IncidenceInit == Init /\ driving = "systems"
IncidenceNext == SysCalls(BOOLEAN)
IncidenceSpec == IncidenceInit /\ [][IncidenceNext]_vars

(***************************************************************************)
(* A standalone systems Edge driven with arbitrary amounts                 *)
(***************************************************************************)
Amounts == (0 - MaxAmount)..MaxAmount

FlowNext ==
    \/ \E t \in 1..MaxThroughput : EdgeNew(t)
    \/ \E a \in Amounts :
          /\ Abs(EdgeAddFlowOp(edge, a).edge.current_flow) <= MaxFlow
          /\ EdgeAddFlow(a)
    \/ \E a \in Amounts :
          /\ Abs(EdgeRemoveFlowOp(edge, a).edge.current_flow) <= MaxFlow
          /\ EdgeRemoveFlow(a)
    \/ EdgeResetFlow

FlowInit == Init /\ driving = "systems"
FlowSpec == FlowInit /\ [][FlowNext]_vars

(***************************************************************************)
(* find_path on maps the entities map is built into.  The caller names its *)
(* nodes and edges itself; an edge ID always goes with the same endpoints. *)
(***************************************************************************)
PathNodeIds == {"a", "", "c", "d", "e"}
PathEdges == {
    <<"p1", "a", "", TRUE>>,
    <<"p2", "", "c", TRUE>>,
    <<"p3", "a", "d", TRUE>>,
    <<"p4", "d", "e", FALSE>>,
    <<"p5", "e", "c", TRUE>>,
    <<"p6", "d", "a", FALSE>> }

PathSources == {"a", "d"}

PathNext ==
    \/ \E id \in PathNodeIds : EntAddNode(0, 0, None, id)
    \/ \E id \in PathNodeIds : EntRemoveNode(id)
    \/ \E p \in PathEdges : EntAddEdge(p[2], p[3], 1, p[4], p[1])
    \/ \E p \in PathEdges : EntRemoveEdge(p[1])
    \/ \E a \in PathSources, b \in PathNodeIds : EntFindPath(a, b)

PathInit == Init /\ driving = "entities"
PathSpec == PathInit /\ [][PathNext]_vars

\* Edges between two node IDs (self-loops included), bidirectional or not,
\* queried at their endpoints and at a third ID: a standalone systems Edge,
\* and the edges of an entities map.
DirIds == {"a", "b"}
DirQueryIds == {"a", "b", "c"}

DirNext ==
    \/ /\ driving = "systems"
       /\ \/ \E f \in DirIds, t \in DirIds, b \in BOOLEAN : EdgeNewDirected(f, t, b)
          \/ \E q \in DirQueryIds : EdgeGetOtherNode(q)
    \/ /\ driving = "entities"
       /\ \/ \E id \in DirIds : EntAddNode(0, 0, None, id)
          \/ \E f \in DirIds, t \in DirIds, b \in BOOLEAN :
                EntAddEdge(f, t, 1, b, "e1")
          \/ \E q \in DirQueryIds : EntEdgeOtherNode("e1", q)

DirSpec == Init /\ [][DirNext]_vars

\* Both maps built with bidirectional and unidirectional edges (a node whose
\* ID is the empty string among the nodes) and asked for the edges and the
\* neighbours of a node.
QueryNodeIds == {"a", ""}
QueryEdgeIds == {"e1", "e2"}

QueryNext ==
    \/ /\ driving = "systems"
       /\ \/ SysCalls(BOOLEAN)
          \/ \E n \in SysNodeIds : SysGetEdgesFromNode(n)
          \/ \E n \in SysNodeIds : SysGetNeighbors(n)
    \/ /\ driving = "entities"
       /\ \/ \E id \in QueryNodeIds : EntAddNode(0, 0, None, id)
          \/ \E id \in QueryNodeIds : EntRemoveNode(id)
          \/ \E id \in QueryEdgeIds, f \in QueryNodeIds, t \in QueryNodeIds,
                b \in BOOLEAN : EntAddEdge(f, t, 1, b, id)
          \/ \E id \in QueryEdgeIds : EntRemoveEdge(id)
          \/ \E n \in QueryNodeIds : EntGetNodeEdges(n)
          \/ \E n \in QueryNodeIds : EntGetNeighborsCall(n)

QuerySpec == Init /\ [][QueryNext]_vars

\* Both maps saved and loaded.  The record loaded is the one to_dict gives
\* for the map, or that record with one node entry taken out (a save edited
\* by hand); the application goes on with the map loaded.
SaveEdgeIds == {"e1"}
SaveNodeIds == {"a", "b"} \cup GeneratedNodeIds

SysSaveInputs ==
    LET data == SysToDictOp(s_nodes, s_edges, connected_edges)
    IN  {data} \cup {[data EXCEPT !.nodes = DictDel(data.nodes, k)] :
                        k \in DOMAIN data.nodes}

EntSaveInputs ==
    LET data == EntToDictOp(e_nodes, e_edges, next_node_id, next_edge_id)
    IN  {data} \cup {[data EXCEPT !.nodes = DictDel(data.nodes, k)] :
                        k \in DOMAIN data.nodes}

SaveNext ==
    \/ /\ driving = "systems"
       /\ \/ \E o \in Objs : SysAddNode(o)
          \/ \E n \in SysNodeIds : SysRemoveNode(n)
          \/ \E id \in SaveEdgeIds, f \in SysNodeIds, t \in SysNodeIds :
                SysAddEdge(SysEdge(id, f, t, 1, TRUE))
          \/ \E id \in SaveEdgeIds : SysRemoveEdge(id)
          \/ \E id \in SaveEdgeIds : SysMapEdgeAddFlow(id, 1)
          \/ \E data \in SysSaveInputs : SysFromDict(data)
    \/ /\ driving = "entities"
       /\ \/ \E x \in EntCoords : EntAddNode(x, 0, None, "a")
          \/ EntAddNode(0, 0, None, "b")
          \/ next_node_id < MaxCounter /\ EntAddNode(0, 0, None, None)
          \/ \E n \in SaveNodeIds : EntRemoveNode(n)
          \/ \E f, t \in SaveNodeIds, b \in BOOLEAN :
                /\ next_edge_id < MaxCounter
                /\ EntAddEdge(f, t, 1, b, None)
          \/ \E id \in {FormatEdgeId(n) : n \in 0..(MaxCounter - 1)} :
                EntRemoveEdge(id)
          \/ \E data \in EntSaveInputs : EntFromDict(data)

SaveSpec == Init /\ [][SaveNext]_vars

\* The entities map with IDs generated on request and by add_node and
\* add_edge, next to caller-supplied IDs of the generated form.
IdNodeIds == {"a", "node_0"}
IdEdgeIds == {"edge_0"}
\* at least two IDs of each kind are generated
IdMaxCounter == MaxCounter + 1
IdAllNodeIds == IdNodeIds \cup {FormatNodeId(n) : n \in 0..(IdMaxCounter - 1)}
IdAllEdgeIds == IdEdgeIds \cup {FormatEdgeId(n) : n \in 0..(IdMaxCounter - 1)}

IdNext ==
    \/ \E id \in IdNodeIds \cup {None} :
          /\ id = None => next_node_id < IdMaxCounter
          /\ EntAddNode(0, 0, None, id)
    \/ \E n \in IdAllNodeIds : EntRemoveNode(n)
    \/ \E f \in IdNodeIds, t \in IdAllNodeIds, id \in IdEdgeIds \cup {None} :
          /\ id = None => next_edge_id < IdMaxCounter
          /\ EntAddEdge(f, t, 1, TRUE, id)
    \/ \E id \in IdAllEdgeIds : EntRemoveEdge(id)
    \/ EntClear
    \/ next_node_id < IdMaxCounter /\ EntGenerateNodeId
    \/ next_edge_id < IdMaxCounter /\ EntGenerateEdgeId

IdInit == Init /\ driving = "entities"
IdSpec == IdInit /\ [][IdNext]_vars

\* Nodes of the entities map placed on a small grid and looked up by radius,
\* a radius equal to the distance of a node (3, 4 and 5) and a negative
\* radius among the queries.
RadiusXs == {0, 3}
RadiusYs == {0, 4}
RadiusNodeIds == {"a", "b"}
RadiusValues == {0 - 1, 0, 3, 4, 5}

RadiusNext ==
    \/ \E x \in RadiusXs, y \in RadiusYs, id \in RadiusNodeIds :
          EntAddNode(x, y, None, id)
    \/ \E id \in RadiusNodeIds : EntRemoveNode(id)
    \/ \E cx \in RadiusXs, r \in RadiusValues : EntGetNodesInRadius(cx, 0, r)

RadiusInit == Init /\ driving = "entities"
RadiusSpec == RadiusInit /\ [][RadiusNext]_vars

\* The two maps driven side by side with explicit IDs, bidirectional and
\* unidirectional edges of two throughputs.
DualEdgeIds == {"e1", "e2"}
DualThroughputs == {1, 2}

DualNext ==
    \/ \E n \in SysNodeIds : DualAddNode(n)
    \/ \E id \in DualEdgeIds, f \in SysNodeIds, t \in SysNodeIds,
          thr \in DualThroughputs, b \in BOOLEAN : DualAddEdge(id, f, t, thr, b)
    \/ \E n \in SysNodeIds : DualRemoveNode(n)
    \/ \E id \in DualEdgeIds : DualRemoveEdge(id)
    \/ DualClear

DualSpec == Init /\ [][DualNext]_vars

\* The event dispatcher with listeners of every priority on a pygame type
\* and on custom types, the callbacks above among them, and events
\* dispatched before and after subscriptions change.
EvSubscriptions ==
    ({"KEYDOWN"} \X {"record"} \X EventPriority)
    \cup ({"t"} \X {"record"} \X {NORMAL, HIGH, CRITICAL})
    \cup ({"KEYDOWN", "t"} \X {"install", "chain"} \X {NORMAL})
    \cup ({"t"} \X {"drop"} \X {HIGH})
    \cup ({"u"} \X {"record"} \X {NORMAL})
    \cup {<<None, "record", NORMAL>>}

EvNext ==
    \/ \E s \in EvSubscriptions : EvSubscribe(s[1], s[2], s[3])
    \/ \E k \in {"KEYDOWN", "t"} : EvUnsubscribe(k, "record")
    \/ EvDispatchPygameEvent("KEYDOWN")
    \/ \E k \in CustomTypes : EvDispatchCustomEvent(k)
    \/ EvProcessCustomEvents

\* dispatcher = EventDispatcher()
EvInit ==
    /\ MapsInit /\ NoServer /\ NoStateManager /\ NoEconomy /\ NoAIPlayer
    /\ dispatcher = EventDispatcherInit
    /\ invoked = <<>>
    /\ installed = FALSE
    /\ created = [listeners |-> 0, events |-> 0]

EvSpec == EvInit /\ [][EvNext]_vars

\* The game server under connects, joins and disconnects of two sessions,
\* in any order, and AI players spawned and removed.
SrvJoinInputs ==
    {[is_dict |-> FALSE, player_name |-> NoKey]}
    \cup {[is_dict |-> TRUE, player_name |-> n] : n \in {NoKey, NotStr, " Ann ", "  "}}

SrvNext ==
    \/ \E sid \in Sids : SrvConnect(sid)
    \/ \E sid \in Sids, data \in SrvJoinInputs : SrvJoin(sid, data)
    \/ \E sid \in Sids : SrvDisconnect(sid)
    \/ \E n \in {None, "TestBot"} : SrvSpawnAiPlayer(n)
    \/ \E id \in AiIds : SrvRemoveAiPlayer(id)

\* server = GameServer()
SrvInit ==
    /\ MapsInit /\ NoDispatcher /\ NoStateManager /\ NoEconomy /\ NoAIPlayer
    /\ server = GameServerInit
    /\ emitted = <<>>
    /\ roster = [p \in PlayerIds |-> 0]

SrvSpec == SrvInit /\ [][SrvNext]_vars

\* The state manager with state objects registered under any names, a name
\* registered again with another object and an object under two names
\* included, and changes to registered and unregistered names.
SmNext ==
    \/ \E name \in StateNames, o \in StateObjs : SmAddState(name, o)
    \/ \E name \in StateNames : SmChangeState(name)
    \/ SmUpdate

\* state_manager = StateManager(config), with the state objects built
SmInit ==
    /\ MapsInit /\ NoDispatcher /\ NoServer /\ NoEconomy /\ NoAIPlayer
    /\ state_manager = StateManagerInit
    /\ state_objs = [o \in StateObjs |-> 0]
    /\ lifecycle = <<>>

SmSpec == SmInit /\ [][SmNext]_vars

\* The economy system, tick interval 2, updated with time steps from zero to
\* more than two tick intervals; rates and modifiers are set while no time
\* has passed since construction or the last reset, and stay as they are
\* afterwards.
EcoDts == 0..5
EcoModifierNames == {"bonus", "tax"}
EcoMultipliers == {2, 3}

EcoNext ==
    \/ \E dt \in EcoDts : EcoUpdate(dt)
    \/ /\ elapsed = 0
       /\ \/ \E n \in EcoModifierNames, k \in EcoMultipliers : EcoAddIncomeModifier(n, k)
          \/ \E n \in EcoModifierNames, k \in EcoMultipliers : EcoAddExpenseModifier(n, k)
          \/ \E n \in EcoModifierNames : EcoRemoveIncomeModifier(n)
    \/ EcoResetTickCount

\* economy = EconomySystem(EconomyConfig(2, 2, 1))
EcoInit ==
    /\ MapsInit /\ NoDispatcher /\ NoServer /\ NoStateManager /\ NoAIPlayer
    /\ economy = EconomySystemInit
    /\ elapsed = 0

EcoSpec == EcoInit /\ [][EcoNext]_vars

\* The AI player, starting with 3 units of money, updated with time steps
\* below and at the decision interval, with free, affordable and too
\* expensive actions queued by the application and by the hooks.
AiDts == {0, 1, 3}
AiQueuedActions == {AiAction("build", 0), AiAction("buy", 2), AiAction("buy", 5)}

AiNext ==
    \/ \E dt \in AiDts : AiUpdate(dt)
    \/ \E action \in AiQueuedActions : AiQueueAction(action)
    \/ AiClearActionQueue
    \/ \E hook \in AiHooks : AiAddDecisionHook(hook)

\* ai_player = AIPlayer(id, name, ResourceManager(3), "hard")
AiInit ==
    /\ MapsInit /\ NoDispatcher /\ NoServer /\ NoStateManager /\ NoEconomy
    /\ ai_player = AIPlayerInit

AiSpec == AiInit /\ [][AiNext]_vars






(***************************************************************************)
(* Properties                                                              *)
(***************************************************************************)
IsTrue(r) == r.t = "bool" /\ r.v = TRUE
IsFalse(r) == r.t = "bool" /\ r.v = FALSE
IsNone(r) == r.t = "none"

\* C1: in both maps every stored edge has its from-node ID and its to-node
\* ID among the keys of the node mapping.
RefIntegrity ==
    /\ \A id \in DOMAIN s_edges :
          /\ s_edges[id].from_node_id \in DOMAIN s_nodes
          /\ s_edges[id].to_node_id \in DOMAIN s_nodes
    /\ \A i \in 1..Len(e_edges) :
          /\ e_edges[i].from_node \in DOMAIN e_nodes
          /\ e_edges[i].to_node \in DOMAIN e_nodes

\* a node was removed from the entities map and edges are still stored
RefIntegrityWitness ==
    /\ call.op = "ent.remove_node"
    /\ IsTrue(ret)
    /\ e_edges /= <<>>
    /\ e_nodes /= EmptyDict

\* the edges of the systems map that touch node n
SysIncident(n) == {id \in DOMAIN s_edges : SysConnects(s_edges[id], n)}

\* C2: for every node of the systems map, the edge IDs its Node object
\* tracks are exactly the IDs of the edges of the map that touch it.
IncidenceInvariant ==
    \A n \in DOMAIN s_nodes :
        Range(connected_edges[s_nodes[n]]) = SysIncident(n)

\* C3: the flow of an Edge of positive throughput stays within
\* [0, throughput] under add_flow, remove_flow and reset_flow.
FlowInvariant ==
    edge.throughput > 0 =>
        (0 <= edge.current_flow /\ edge.current_flow <= edge.throughput)

\* C4: in the systems map add_node with a node ID already present, and
\* add_edge with an edge ID already present, return False and leave the
\* node mapping, the edge mapping and every incidence list as they were.
DupRejectSys ==
    [][ /\ (call'.op = "sys.add_node" /\ call'.id \in DOMAIN s_nodes)
            => (IsFalse(ret') /\ UNCHANGED sysVars)
        /\ (call'.op = "sys.add_edge" /\ call'.id \in DOMAIN s_edges)
            => (IsFalse(ret') /\ UNCHANGED sysVars) ]_vars

\* a second Node object with the ID of a node that has edges was rejected
DupRejectSysWitness ==
    /\ call.op = "sys.add_node"
    /\ IsFalse(ret)
    /\ s_nodes[call.id] /= call.obj
    /\ connected_edges[s_nodes[call.id]] /= <<>>
    /\ connected_edges[call.obj] = <<>>

\* C5: in the entities map add_node with a caller-supplied node ID already
\* present, and add_edge with a caller-supplied edge ID already present,
\* leave the entry stored under that ID as it was.
DupKeptEnt ==
    [][ /\ (/\ call'.op = "ent.add_node"
            /\ call'.node_id /= None
            /\ call'.node_id \in DOMAIN e_nodes)
            => e_nodes'[call'.node_id] = e_nodes[call'.node_id]
        /\ (/\ call'.op = "ent.add_edge"
            /\ call'.edge_id /= None
            /\ call'.edge_id \in OdKeys(e_edges))
            => (/\ call'.edge_id \in OdKeys(e_edges')
                /\ OdGet(e_edges', call'.edge_id) = OdGet(e_edges, call'.edge_id)) ]_vars

\* C6: in both maps remove_node and remove_edge of an ID that is not in the
\* map return False and leave the node mapping, the edge mapping and all
\* incidence lists as they were.
IdempotentRemoval ==
    [][ /\ (call'.op = "sys.remove_node" /\ call'.id \notin DOMAIN s_nodes)
            => (IsFalse(ret') /\ UNCHANGED sysVars)
        /\ (call'.op = "sys.remove_edge" /\ call'.id \notin DOMAIN s_edges)
            => (IsFalse(ret') /\ UNCHANGED sysVars)
        /\ (call'.op = "ent.remove_node" /\ call'.id \notin DOMAIN e_nodes)
            => (IsFalse(ret') /\ UNCHANGED entVars)
        /\ (call'.op = "ent.remove_edge" /\ call'.id \notin OdKeys(e_edges))
            => (IsFalse(ret') /\ UNCHANGED entVars) ]_vars

\* remove_edge failed for an edge ID that is not in the systems map while a
\* node of the map still tracks that ID
IdempotentRemovalWitness ==
    /\ call.op = "sys.remove_edge"
    /\ IsFalse(ret)
    /\ \E n \in DOMAIN s_nodes : call.id \in Range(connected_edges[s_nodes[n]])

\* C7: in both maps, after remove_node(n) returns True n is absent and no
\* stored edge connects n; in the systems map every edge the call removed is
\* also gone from the incidence lists of the nodes that stay.
CascadeOnRemove ==
    [][ /\ (call'.op = "sys.remove_node" /\ IsTrue(ret'))
            => (/\ call'.id \notin DOMAIN s_nodes'
                /\ \A id \in DOMAIN s_edges' :
                      ~SysConnects(s_edges'[id], call'.id)
                /\ \A id \in (DOMAIN s_edges) \ (DOMAIN s_edges') :
                      \A m \in DOMAIN s_nodes' :
                          SysConnects(s_edges[id], m)
                              => id \notin Range(connected_edges'[s_nodes'[m]]))
        /\ (call'.op = "ent.remove_node" /\ IsTrue(ret'))
            => (/\ call'.id \notin DOMAIN e_nodes'
                /\ \A i \in 1..Len(e_edges') :
                      ~EntConnects(e_edges'[i], call'.id)) ]_vars

\* a node was removed from the systems map together with an edge to a node
\* that stays: the removed Node object still tracks the edge, the map does
\* not hold it and the remaining node does not track it
CascadeOnRemoveWitness ==
    /\ call.op = "sys.remove_node"
    /\ IsTrue(ret)
    /\ s_nodes /= EmptyDict
    /\ s_edges /= EmptyDict
    /\ \E o \in Objs : \E id \in Range(connected_edges[o]) :
          /\ ObjId(o) = call.id
          /\ id \notin DOMAIN s_edges
          /\ \A m \in DOMAIN s_nodes : id \notin Range(connected_edges[s_nodes[m]])

\* C8: in both maps add_edge with an endpoint that is not in the node
\* mapping fails (False in the systems map, None in the entities map) and
\* leaves the maps, the incidence lists and the ID counters as they were.
EndpointValidation ==
    [][ /\ (/\ call'.op = "sys.add_edge"
            /\ (\/ call'.edge.from_node_id \notin DOMAIN s_nodes
                \/ call'.edge.to_node_id \notin DOMAIN s_nodes))
            => (IsFalse(ret') /\ UNCHANGED sysVars)
        /\ (/\ call'.op = "ent.add_edge"
            /\ (\/ call'.from_node \notin DOMAIN e_nodes
                \/ call'.to_node \notin DOMAIN e_nodes))
            => (IsNone(ret') /\ UNCHANGED entVars) ]_vars

\* add_edge without an edge ID failed in the entities map with exactly one
\* endpoint present
EndpointValidationWitness ==
    /\ call.op = "ent.add_edge"
    /\ IsNone(ret)
    /\ call.edge_id = None
    /\ (call.from_node \in DOMAIN e_nodes) /= (call.to_node \in DOMAIN e_nodes)
    /\ e_edges /= <<>>

\* The nodes one edge away from u: a bidirectional edge is usable both
\* ways, a unidirectional edge only from from_node to to_node.
WalkStep(u) ==
    {e_edges[i].to_node : i \in {j \in 1..Len(e_edges) : e_edges[j].from_node = u}}
    \cup
    {e_edges[i].from_node : i \in {j \in 1..Len(e_edges) :
                                    e_edges[j].to_node = u /\ e_edges[j].bidirectional}}

\* The least number of edges of a walk from a node of `frontier` to b, where
\* the nodes of `frontier` are k edges away from the start; -1 if there is
\* no walk.
RECURSIVE WalkDistFrom(_, _, _, _)
WalkDistFrom(frontier, seen, b, k) ==
    IF b \in frontier THEN k
    ELSE LET next == (UNION {WalkStep(u) : u \in frontier}) \ seen
         IN  IF next = {} THEN 0 - 1
             ELSE WalkDistFrom(next, seen \cup next, b, k + 1)

WalkDist(a, b) == WalkDistFrom({a}, {a}, b, 0)

\* C9: a path returned by find_path(a, b) has the least number of edges of
\* all directed walks from a to b.
PathMinimal ==
    (call.op = "ent.find_path" /\ ret.t = "list")
        => Len(ret.v) - 1 = WalkDist(call.from_node, call.to_node)

\* C10: for present nodes a /= b, find_path(a, b) returns None exactly when
\* b cannot be reached from a along the edges in their permitted direction.
PathComplete ==
    (/\ call.op = "ent.find_path"
     /\ call.from_node /= call.to_node
     /\ call.from_node \in DOMAIN e_nodes
     /\ call.to_node \in DOMAIN e_nodes)
        => (IsNone(ret) <=> WalkDist(call.from_node, call.to_node) = 0 - 1)

\* C11: find_path(a, b) of the entities map returns None whenever a or b is
\* not a key of the node mapping (a = b absent included), returns the
\* one-element list [a] when a = b is present, whatever the edges are, and
\* leaves the nodes, the edges and the ID counters as they were.
PathTrivial ==
    [][ call'.op = "ent.find_path"
        => /\ UNCHANGED entVars
           /\ (\/ call'.from_node \notin DOMAIN e_nodes
               \/ call'.to_node \notin DOMAIN e_nodes) => IsNone(ret')
           /\ (/\ call'.from_node = call'.to_node
               /\ call'.from_node \in DOMAIN e_nodes)
               => ret' = RetList(<<call'.from_node>>) ]_vars

\* find_path(a, a) returned None for an absent a in a map that has edges
PathTrivialWitness ==
    /\ call.op = "ent.find_path"
    /\ call.from_node = call.to_node
    /\ call.from_node \notin DOMAIN e_nodes
    /\ IsNone(ret)
    /\ e_edges /= <<>>

EdgeDirection ==
    LET Holds(from, to, bidirectional, q, r) ==
            /\ q = from => r = to
            /\ (q = to /\ q /= from /\ bidirectional) => r = from
            /\ (q = to /\ q /= from /\ ~bidirectional) => r = None
            /\ (q /= from /\ q /= to) => r = None
    IN  /\ call.op = "edge.get_other_node"
            => Holds(edge.from_node_id, edge.to_node_id, edge.bidirectional,
                     call.node_id, ret.v)
        /\ call.op = "ent.edge.other_node"
            => LET e == OdGet(e_edges, call.edge_id)
               IN  Holds(e.from_node, e.to_node, e.bidirectional,
                         call.node_id, ret.v)

\* a unidirectional systems edge between two different nodes was asked about
\* its to endpoint and answered None
EdgeDirectionWitness ==
    /\ call.op = "edge.get_other_node"
    /\ ~edge.bidirectional
    /\ edge.from_node_id /= edge.to_node_id
    /\ call.node_id = edge.to_node_id
    /\ ret.v = None

\* The IDs v for which the edges (given as a set of [from, to, bidirectional]
\* records) hold an edge from n to v, or a bidirectional edge from v to n.
Adjacent(es, n) ==
    {e.to : e \in {x \in es : x.from = n}}
    \cup {e.from : e \in {x \in es : x.to = n /\ x.bidirectional}}

SysEdgeSet ==
    {[from |-> s_edges[k].from_node_id, to |-> s_edges[k].to_node_id,
      bidirectional |-> s_edges[k].bidirectional] : k \in DOMAIN s_edges}

EntEdgeSet ==
    {[from |-> e_edges[i].from_node, to |-> e_edges[i].to_node,
      bidirectional |-> e_edges[i].bidirectional] : i \in 1..Len(e_edges)}

\* C14: in both maps get_neighbors(n) yields v exactly when the map has an
\* edge from n to v or a bidirectional edge from v to n, and every neighbour
\* it yields is a node of the map.
NeighborsDirected ==
    /\ call.op = "sys.get_neighbors"
        => LET got == {ObjId(o) : o \in Range(ret.v)}
           IN  got = Adjacent(SysEdgeSet, call.id) /\ got \subseteq DOMAIN s_nodes
    /\ call.op = "ent.get_neighbors"
        => LET got == {p[1] : p \in Range(ret.v)}
           IN  got = Adjacent(EntEdgeSet, call.id) /\ got \subseteq DOMAIN e_nodes

\* C15: get_node_edges(n) of the entities map and get_edges_from_node(n) of
\* the systems map return exactly the edges of the map that connect n.
EdgesOfNodeExact ==
    /\ call.op = "sys.get_edges_from_node"
        => Range(ret.v) = {s_edges[k] : k \in {j \in DOMAIN s_edges :
                                SysConnects(s_edges[j], call.id)}}
    /\ call.op = "ent.get_node_edges"
        => Range(ret.v) = {e_edges[i] : i \in {j \in 1..Len(e_edges) :
                                e_edges[j].from_node = call.id
                                \/ e_edges[j].to_node = call.id}}

\* the IDs of the Node objects of a list
ObjIds(objs) == [i \in 1..Len(objs) |-> ObjId(objs[i])]

\* C16: loading the record that to_dict gives for a map yields a map with
\* the same node IDs and edge IDs, the same field values (coordinates, name,
\* endpoints, throughput, bidirectional, and in the systems map current_flow
\* and the incidence lists), and the same results of get_neighbors (and of
\* find_path in the entities map).
RoundTrip ==
    [][ /\ (/\ call'.op = "ent.from_dict"
            /\ call'.data = EntToDictOp(e_nodes, e_edges, next_node_id, next_edge_id))
            => /\ e_nodes' = e_nodes
               /\ e_edges' = e_edges
               /\ \A n \in SaveNodeIds :
                     EntGetNeighbors(e_edges', n) = EntGetNeighbors(e_edges, n)
               /\ \A a, b \in SaveNodeIds :
                     EntFindPathOp(e_nodes', e_edges', a, b)
                         = EntFindPathOp(e_nodes, e_edges, a, b)
        /\ (/\ call'.op = "sys.from_dict"
            /\ call'.data = SysToDictOp(s_nodes, s_edges, connected_edges))
            => /\ DOMAIN s_nodes' = DOMAIN s_nodes
               /\ s_edges' = s_edges
               /\ \A n \in DOMAIN s_nodes :
                     /\ ObjId(s_nodes'[n]) = ObjId(s_nodes[n])
                     /\ connected_edges'[s_nodes'[n]] = connected_edges[s_nodes[n]]
               /\ \A n \in SysNodeIds :
                     ObjIds(SysGetNeighborsOp(s_nodes', s_edges', connected_edges', n))
                         = ObjIds(SysGetNeighborsOp(s_nodes, s_edges, connected_edges, n)) ]_vars

\* a systems map with two nodes and an edge that carries flow was saved and
\* loaded
RoundTripWitness ==
    /\ call.op = "sys.from_dict"
    /\ call.data = SysToDictOp(s_nodes, s_edges, connected_edges)
    /\ DOMAIN s_nodes = SysNodeIds
    /\ \E k \in DOMAIN s_edges :
          /\ s_edges[k].current_flow = 1
          /\ s_edges[k].from_node_id /= s_edges[k].to_node_id

\* C17: every edge of a map returned by from_dict, in either implementation,
\* has both endpoints among the nodes of that map.
LoadedRefIntegrity ==
    /\ call.op = "ent.from_dict"
        => \A i \in 1..Len(e_edges) :
              e_edges[i].from_node \in DOMAIN e_nodes
              /\ e_edges[i].to_node \in DOMAIN e_nodes
    /\ call.op = "sys.from_dict"
        => \A k \in DOMAIN s_edges :
              s_edges[k].from_node_id \in DOMAIN s_nodes
              /\ s_edges[k].to_node_id \in DOMAIN s_nodes

\* C18: loading the record that to_dict gives for an entities map restores
\* both ID counters, so the next generated node ID and edge ID are the ones
\* the saved map would have generated, and neither is the ID of a node or
\* an edge of the loaded map (in SaveSpec the IDs of the generated form are
\* exactly the auto-generated ones).
CounterContinuity ==
    [][ (/\ call'.op = "ent.from_dict"
         /\ call'.data = EntToDictOp(e_nodes, e_edges, next_node_id, next_edge_id))
        => /\ next_node_id' = next_node_id
           /\ next_edge_id' = next_edge_id
           /\ FormatNodeId(next_node_id') = FormatNodeId(next_node_id)
           /\ FormatEdgeId(next_edge_id') = FormatEdgeId(next_edge_id)
           /\ FormatNodeId(next_node_id') \notin DOMAIN e_nodes'
           /\ FormatEdgeId(next_edge_id') \notin OdKeys(e_edges') ]_vars

\* an entities map holding an auto-generated node and an auto-generated edge
\* was saved and loaded
CounterContinuityWitness ==
    /\ call.op = "ent.from_dict"
    /\ call.data = EntToDictOp(e_nodes, e_edges, next_node_id, next_edge_id)
    /\ FormatNodeId(0) \in DOMAIN e_nodes
    /\ FormatEdgeId(0) \in OdKeys(e_edges)
    /\ next_node_id > 0
    /\ next_edge_id > 0

\* C19: on one entities map the IDs that generate_node_id() returns, alone
\* or inside add_node, are pairwise different, and so are those of
\* generate_edge_id(): no step lowers a counter (clear included), and each
\* generated ID is the one of the current counter value, differs from the ID
\* of every smaller counter value, and moves the counter up by one.
GeneratedUnique ==
    [][ /\ next_node_id' >= next_node_id
        /\ next_edge_id' >= next_edge_id
        /\ \A r \in {ret'} :
             /\ (\/ call'.op = "ent.generate_node_id"
                 \/ (call'.op = "ent.add_node" /\ call'.node_id = None))
                => LET id == IF call'.op = "ent.add_node" THEN r.v.node_id ELSE r.v
                   IN  /\ id = FormatNodeId(next_node_id)
                       /\ next_node_id' = next_node_id + 1
                       /\ \A k \in 0..(next_node_id - 1) : FormatNodeId(k) /= id
             /\ (\/ call'.op = "ent.generate_edge_id"
                 \/ (call'.op = "ent.add_edge" /\ call'.edge_id = None /\ ~IsNone(r)))
                => LET id == IF call'.op = "ent.add_edge" THEN r.v.edge_id ELSE r.v
                   IN  /\ id = FormatEdgeId(next_edge_id)
                       /\ next_edge_id' = next_edge_id + 1
                       /\ \A k \in 0..(next_edge_id - 1) : FormatEdgeId(k) /= id ]_vars

\* a second node ID was generated on a map that was cleared after the first
GeneratedUniqueWitness ==
    /\ call.op = "ent.generate_node_id"
    /\ ret.v = FormatNodeId(1)
    /\ next_node_id = 2
    /\ e_nodes = EmptyDict

\* C20: add_node without node_id adds one node to the map and replaces none
\* of the nodes already there, and add_edge without edge_id, when it returns
\* an edge, adds one edge and replaces none, whatever IDs the caller supplied
\* before.
AutoIdFresh ==
    [][ /\ (call'.op = "ent.add_node" /\ call'.node_id = None)
            => /\ Cardinality(DOMAIN e_nodes') = Cardinality(DOMAIN e_nodes) + 1
               /\ \A k \in DOMAIN e_nodes : e_nodes'[k] = e_nodes[k]
        /\ (call'.op = "ent.add_edge" /\ call'.edge_id = None /\ ~IsNone(ret'))
            => /\ Len(e_edges') = Len(e_edges) + 1
               /\ \A i \in 1..Len(e_edges) : e_edges'[i] = e_edges[i] ]_vars

\* C21: Edge.add_flow(amount) returns True and raises current_flow by exactly
\* amount when current_flow + amount <= throughput; otherwise it returns
\* False and leaves every field of the edge as it was.
AddFlowAllOrNothing ==
    [][ call'.op = "edge.add_flow"
        => IF edge.current_flow + call'.amount <= edge.throughput
           THEN /\ IsTrue(ret')
                /\ edge' = [edge EXCEPT !.current_flow = edge.current_flow + call'.amount]
           ELSE /\ IsFalse(ret')
                /\ edge' = edge ]_vars

\* add_flow was refused on an edge that already carries flow below its
\* throughput
AddFlowAllOrNothingWitness ==
    /\ call.op = "edge.add_flow"
    /\ IsFalse(ret)
    /\ 0 < edge.current_flow
    /\ edge.current_flow < edge.throughput

\* C22: get_nodes_in_radius(cx, cy, r) with r >= 0 returns exactly the nodes
\* of the map with (x - cx)^2 + (y - cy)^2 <= r^2, a node at distance exactly
\* r included, and leaves the map as it was.
RadiusExact ==
    [][ (call'.op = "ent.get_nodes_in_radius" /\ call'.radius >= 0)
        => /\ UNCHANGED entVars
           /\ ret'.v = {e_nodes[k] : k \in {j \in DOMAIN e_nodes :
                  (e_nodes[j].x - call'.center_x) * (e_nodes[j].x - call'.center_x)
                  + (e_nodes[j].y - call'.center_y) * (e_nodes[j].y - call'.center_y)
                      <= call'.radius * call'.radius}} ]_vars

\* a query of radius 5 returned the node at (3, 4) from the origin and left
\* out nothing
RadiusExactWitness ==
    /\ call.op = "ent.get_nodes_in_radius"
    /\ call.radius = 5
    /\ call.center_x = 0
    /\ \E n \in ret.v : n.x = 3 /\ n.y = 4
    /\ Cardinality(DOMAIN e_nodes) = 2

\* C24: remove_node(n) of the systems map leaves every edge that does not
\* connect n in the edge mapping and in the incidence lists of its
\* endpoints, and leaves every other node in the node mapping.
RemoveNodeFrame ==
    [][ (call'.op = "sys.remove_node" /\ call'.id \in DOMAIN s_nodes)
        => /\ DOMAIN s_nodes' = (DOMAIN s_nodes) \ {call'.id}
           /\ \A m \in DOMAIN s_nodes' : s_nodes'[m] = s_nodes[m]
           /\ \A k \in DOMAIN s_edges :
                 ~SysConnects(s_edges[k], call'.id)
                 => /\ k \in DOMAIN s_edges'
                    /\ s_edges'[k] = s_edges[k]
                    /\ \A m \in DOMAIN s_nodes' :
                          k \in Range(connected_edges[s_nodes[m]])
                          => k \in Range(connected_edges'[s_nodes'[m]]) ]_vars

\* C25: driven by the same calls, the systems map and the entities map
\* report the same success or failure, hold the same node IDs and the same
\* edges (id, from, to, bidirectional, throughput), and get_neighbors gives
\* the same set of neighbour IDs for every node.
DualAgree ==
    LET Ok(r) == IF r.t = "bool" THEN r.v ELSE r.t /= "none"
    IN  /\ DOMAIN s_nodes = DOMAIN e_nodes
        /\ {<<s_edges[k].id, s_edges[k].from_node_id, s_edges[k].to_node_id,
              s_edges[k].bidirectional, s_edges[k].throughput>> : k \in DOMAIN s_edges}
           = {<<e_edges[i].edge_id, e_edges[i].from_node, e_edges[i].to_node,
                e_edges[i].bidirectional, e_edges[i].throughput>> : i \in 1..Len(e_edges)}
        /\ \A n \in SysNodeIds :
              {ObjId(o) : o \in Range(SysGetNeighborsOp(s_nodes, s_edges,
                                                        connected_edges, n))}
              = {p[1] : p \in Range(EntGetNeighbors(e_edges, n))}
        /\ call.op \in {"dual.add_node", "dual.add_edge", "dual.remove_node",
                        "dual.remove_edge"}
              => Ok(ret.sys) = Ok(ret.ent)

\* a node was removed from both maps while a unidirectional edge stays in
\* both
DualAgreeWitness ==
    /\ call.op = "dual.remove_node"
    /\ ret.sys.v = TRUE
    /\ \E k \in DOMAIN s_edges : ~s_edges[k].bidirectional
    /\ Len(e_edges) = 1

(***************************************************************************)
(* Event dispatcher                                                        *)
(***************************************************************************)
\* The IDs of the listeners in S in the order of delivery: higher priority
\* first and, among listeners of equal priority, the one subscribed first.
RECURSIVE DeliveryOrder(_)
DeliveryOrder(S) ==
    IF S = {} THEN <<>>
    ELSE LET first == CHOOSE l \in S : \A k \in S :
                          \/ l.priority > k.priority
                          \/ l.priority = k.priority /\ l.id <= k.id
         IN  <<first.id>> \o DeliveryOrder(S \ {first})

\* The IDs of the listeners called with event e, in the order of the calls.
InvokedWith(log, e) ==
    LET sel == SelectSeq(log, LAMBDA r : r.event = e)
    IN  [j \in 1..Len(sel) |-> sel[j].listener]

\* C23: dispatch_pygame_event, and process_custom_events for the event at the
\* head of the queue, call the listeners subscribed to the event's type in
\* non-increasing priority order, equal priorities in subscription order,
\* each listener exactly once.
PriorityDispatch ==
    [][ /\ call'.op = "ev.dispatch_pygame_event"
           => InvokedWith(invoked', call'.event.id)
              = DeliveryOrder(Range(dispatcher.pygame_listeners[call'.event.event_type]))
        /\ (call'.op = "ev.process_custom_events" /\ dispatcher.event_queue /= <<>>)
           => LET e == Head(dispatcher.event_queue)
              IN  InvokedWith(invoked', e.id)
                  = DeliveryOrder(Range(dispatcher.custom_listeners[e.event_type])) ]_vars

ListenerIds(listeners) == {listeners[i].id : i \in 1..Len(listeners)}

\* C26: dispatch_custom_event only queues the event and calls no listener;
\* process_custom_events delivers events in the order they were dispatched,
\* no event twice to the same listener, the event at the head of the queue
\* to the listeners subscribed to its type, the events its listeners
\* dispatch meanwhile to the listeners of their type, and leaves the queue
\* empty.
QueueDelivery ==
    [][ /\ call'.op = "ev.dispatch_custom_event"
           => /\ invoked' = <<>>
              /\ dispatcher'.event_queue
                 = Append(dispatcher.event_queue,
                          GameEvent(call'.event_type, created.events + 1))
        /\ call'.op = "ev.process_custom_events"
           => /\ dispatcher'.event_queue = <<>>
              /\ \A i \in 1..Len(invoked') : \A j \in 1..Len(invoked') :
                    i < j => /\ invoked'[i].event <= invoked'[j].event
                             /\ invoked'[i] /= invoked'[j]
              /\ dispatcher.event_queue /= <<>>
                 => LET e == Head(dispatcher.event_queue)
                    IN  Range(InvokedWith(invoked', e.id))
                        = ListenerIds(dispatcher.custom_listeners[e.event_type])
              /\ \A id \in (created.events + 1)..created'.events :
                    Range(InvokedWith(invoked', id))
                    = ListenerIds(dispatcher.custom_listeners["u"]) ]_vars

(***************************************************************************)
(* Game server                                                             *)
(***************************************************************************)
HasEvent(out, event) == \E i \in 1..Len(out) : out[i].event = event

\* C27: for every player ID the player_joined and player_left broadcasts
\* alternate, starting with player_joined (a client counting joins minus
\* leaves sees 0 or 1); a join from a session already among the players, or
\* from one that is not a client, changes nothing and emits nothing; a
\* disconnect of a session that is not among the players emits no
\* player_left; after a disconnect the session is neither a client nor a
\* player.
JoinLeaveAlternate ==
    [][ /\ \A p \in PlayerIds : roster'[p] \in {0, 1}
        /\ (call'.op = "srv.join"
            /\ (call'.sid \in DOMAIN server.players
                \/ call'.sid \notin DOMAIN server.clients))
           => (server' = server /\ emitted' = <<>>)
        /\ (call'.op = "srv.disconnect" /\ call'.sid \notin DOMAIN server.players)
           => ~HasEvent(emitted', "player_left")
        /\ call'.op = "srv.disconnect"
           => /\ call'.sid \notin DOMAIN server'.clients
              /\ call'.sid \notin DOMAIN server'.players ]_vars

\* a connected session that has joined sends a second, well-formed join
JoinLeaveAlternateWitness ==
    /\ call.op = "srv.join"
    /\ call.data.is_dict
    /\ call.sid \in DOMAIN server.players
    /\ call.sid \in DOMAIN server.clients
    /\ emitted = <<>>
    /\ roster[call.sid] = 1

(***************************************************************************)
(* State manager                                                           *)
(***************************************************************************)
\* C28: change_state with a registered name calls exit() on the current
\* state, if there is one, and then enter() on the new state, which becomes
\* the current state under that name; every state object's enter() and
\* exit() calls alternate starting with enter() (its counter is 0 or 1); the
\* only state entered and not exited is the current state;
\* current_state_name and current_state change in no other call;
\* change_state with an unregistered name raises ValueError, calls nothing
\* and leaves current_state and current_state_name as they were.
TransitionProtocol ==
    [][ /\ (call'.op = "sm.change_state" /\ call'.name \in DOMAIN state_manager.states)
           => /\ lifecycle'
                 = (IF state_manager.current_state /= None
                    THEN <<[method |-> "exit", state |-> state_manager.current_state]>>
                    ELSE <<>>)
                   \o <<[method |-> "enter", state |-> state_manager.states[call'.name]]>>
              /\ state_manager'.current_state = state_manager.states[call'.name]
              /\ state_manager'.current_state_name = call'.name
        /\ \A o \in StateObjs :
              /\ state_objs'[o] \in {0, 1}
              /\ state_objs'[o] = 1 <=> state_manager'.current_state = o
        /\ ~(call'.op = "sm.change_state" /\ call'.name \in DOMAIN state_manager.states)
           => /\ state_manager'.current_state = state_manager.current_state
              /\ state_manager'.current_state_name = state_manager.current_state_name
              /\ state_objs' = state_objs
        /\ (call'.op = "sm.change_state" /\ call'.name \notin DOMAIN state_manager.states)
           => /\ ret' = [t |-> "raise", v |-> "ValueError"]
              /\ lifecycle' = <<>> ]_vars

\* a change from one state object to another one
TransitionProtocolWitness ==
    /\ call.op = "sm.change_state"
    /\ Len(lifecycle) = 2
    /\ lifecycle[1].method = "exit"
    /\ lifecycle[2].method = "enter"
    /\ lifecycle[1].state /= lifecycle[2].state
    /\ state_objs[lifecycle[1].state] = 0

(***************************************************************************)
(* Economy                                                                 *)
(***************************************************************************)
\* C29: with a positive tick interval and rates and modifiers constant
\* while time passes, 0 <= accumulated_time < tick_interval, tick_count is
\* the number of whole intervals in the time elapsed, and total_income is
\* tick_count times the income of a tick.
TickAccounting ==
    /\ 0 <= economy.accumulated_time
    /\ economy.accumulated_time < economy.config.tick_interval
    /\ economy.tick_count = elapsed \div economy.config.tick_interval
    /\ economy.total_income = economy.tick_count * TickIncome(economy.config)

(***************************************************************************)
(* AI player                                                               *)
(***************************************************************************)
\* C30: when update() has just returned, the state is IDLE if the action
\* queue is empty and EXECUTING if it is not.
StateMatchesQueue ==
    [][ call'.op = "ai.update"
        => /\ ai_player'.action_queue = <<>> => ai_player'.state = "idle"
           /\ ai_player'.action_queue /= <<>> => ai_player'.state = "executing" ]_vars

====
